---------------------------- MODULE Spec2Model ----------------------------
(***************************************************************************)
(* Macros-NX (src/macroBuilder.py): the connection to sys-botbase, the     *)
(* macro playback loop of MacroBuilderApp._test_macro and the manual       *)
(* controls, as a state machine.  Step tokens, wire commands and status    *)
(* texts are strings, handled the way the Python code handles them         *)
(* (startswith, slicing, split, int, upper, f-strings).                    *)
(***************************************************************************)
EXTENDS Integers, Sequences, FiniteSets, TLC

(***************************************************************************)
(* Bounds of the model.                                                    *)
(***************************************************************************)
MaxSteps == 3      \* longest step list drawn for a played macro
MaxSockets == 2    \* sockets socket.socket() may create in one behaviour
MaxMacros == 1     \* longest macro library built by imports
MaxLibrary == 2    \* longest macro library built in the library editor
MaxCopies == 1     \* how many times " (Copy)" is added to one name

(***************************************************************************)
(* Python string primitives.                                               *)
(***************************************************************************)
CharAt(s, k) == SubSeq(s, k, k)

\* s[k:]
Slice(s, k) == IF k >= Len(s) THEN "" ELSE SubSeq(s, k + 1, Len(s))

\* s.startswith(p)
StartsWith(s, p) == Len(s) >= Len(p) /\ SubSeq(s, 1, Len(p)) = p

\* sub in s
Contains(s, sub) ==
    \E k \in 1..(Len(s) - Len(sub) + 1) : SubSeq(s, k, k + Len(sub) - 1) = sub

\* p is an initial part of the sequence q
IsPrefix(p, q) == Len(p) <= Len(q) /\ SubSeq(q, 1, Len(p)) = p

LowerChars == "abcdefghijklmnopqrstuvwxyz"
UpperChars == "ABCDEFGHIJKLMNOPQRSTUVWXYZ"

UpperChar(c) ==
    IF \E k \in 1..26 : CharAt(LowerChars, k) = c
    THEN CharAt(UpperChars, CHOOSE k \in 1..26 : CharAt(LowerChars, k) = c)
    ELSE c

RECURSIVE Upper(_)
\* s.upper()
Upper(s) == IF s = "" THEN "" ELSE UpperChar(Head(s)) \o Upper(Tail(s))

RECURSIVE SplitFrom(_, _, _)
SplitFrom(s, sep, cur) ==
    IF s = "" THEN <<cur>>
    ELSE IF Head(s) = sep THEN <<cur>> \o SplitFrom(Tail(s), sep, "")
    ELSE SplitFrom(Tail(s), sep, cur \o Head(s))

\* s.split(sep), sep one character
Split(s, sep) == SplitFrom(s, sep, "")

Digits == "0123456789"
IsDigit(c) == \E k \in 1..10 : CharAt(Digits, k) = c
DigitVal(c) == (CHOOSE k \in 1..10 : CharAt(Digits, k) = c) - 1

RECURSIVE StripLeft(_)
StripLeft(s) == IF s # "" /\ Head(s) = " " THEN StripLeft(Tail(s)) ELSE s

RECURSIVE StripRight(_)
StripRight(s) ==
    IF s # "" /\ CharAt(s, Len(s)) = " "
    THEN StripRight(SubSeq(s, 1, Len(s) - 1)) ELSE s

\* s.strip(), for blanks
Strip(s) == StripLeft(StripRight(s))

\* the digits of an int() literal: groups of digits, single underscores between
RECURSIVE DigitsOk(_, _)
DigitsOk(s, prevDigit) ==
    IF s = "" THEN prevDigit
    ELSE IF IsDigit(Head(s)) THEN DigitsOk(Tail(s), TRUE)
    ELSE IF Head(s) = "_" THEN prevDigit /\ DigitsOk(Tail(s), FALSE)
    ELSE FALSE

RECURSIVE DigitsVal(_, _)
DigitsVal(s, acc) ==
    IF s = "" THEN acc
    ELSE IF Head(s) = "_" THEN DigitsVal(Tail(s), acc)
    ELSE DigitsVal(Tail(s), 10 * acc + DigitVal(Head(s)))

\* int(s): [ok |-> TRUE, val |-> n], or ok = FALSE where int raises ValueError
ParseInt(s) ==
    LET t == Strip(s)
        signed == t # "" /\ Head(t) \in {"+", "-"}
        body == IF signed THEN Tail(t) ELSE t
    IN  IF DigitsOk(body, FALSE)
        THEN [ok |-> TRUE,
              val |-> IF signed /\ Head(t) = "-"
                      THEN 0 - DigitsVal(body, 0) ELSE DigitsVal(body, 0)]
        ELSE [ok |-> FALSE, val |-> 0]

RECURSIVE NatToStr(_)
NatToStr(n) ==
    IF n < 10 THEN CharAt(Digits, n + 1)
    ELSE NatToStr(n \div 10) \o CharAt(Digits, (n % 10) + 1)

\* f"{n}" for an int n
IntToStr(n) == IF n < 0 THEN "-" \o NatToStr(0 - n) ELSE NatToStr(n)


(***************************************************************************)
(* Python values: None, dicts, exceptions.                                 *)
(***************************************************************************)
None == 0          \* self.switch_socket = None; sockets are 1, 2, ...
NoIndex == -1      \* self.selected_index = None / empty curselection()

Has(m, k) == k \in DOMAIN m
\* m.get(k, d)
Get(m, k, d) == IF k \in DOMAIN m THEN m[k] ELSE d
\* m[k] = v
Put(m, k, v) == [x \in DOMAIN m \cup {k} |-> IF x = k THEN v ELSE m[x]]

NoExc == [type |-> "", msg |-> ""]
Exc(t, m) == [type |-> t, msg |-> m]

\* `except Exception` catches every exception the modelled code raises
ExceptException(e) == e # NoExc

(***************************************************************************)
(* Inputs.                                                                 *)
(***************************************************************************)
BUTTONS == {"A", "B", "X", "Y", "L", "R", "ZL", "ZR", "PLUS", "MINUS",
            "HOME", "CAPTURE", "LSTICK", "RSTICK"}
DPAD == {"DUP", "DDOWN", "DLEFT", "DRIGHT",
         "DUPLEFT", "DUPRIGHT", "DDOWNLEFT", "DDOWNRIGHT"}

\* the buttons of the manual tab that the model presses
ManualButtons == {"DUP"}

\* texts of the port entry at the time connect runs
PortTexts == {"6000", "abc"}
SwitchIp == "192.168.1.100"

\* str(e) of a failed socket.connect / socket.sendall
ConnectCauses == {"timed out"}
TransportCauses == {"timed out"}

\* pointer positions delivered to a 140x140 stick canvas (here: its centre)
PointerEvents == {<<70, 70>>}
Sides == {"LEFT", "RIGHT"}

\* step tokens of the played macros: editor-made, hand-edited and malformed
PlayTokens == {"Button:A", "Button:b", "Hold:A", "Release:A",
               "Wait:5", "Wait:x", "Wait:-5",
               "%1,-2", "&3,4", "Stick:5,6", "%7", "Junk"}

RECURSIVE SeqsUpTo(_, _)
SeqsUpTo(S, n) ==
    IF n = 0 THEN {<<>>}
    ELSE LET shorter == SeqsUpTo(S, n - 1)
         IN  shorter \cup {Append(q, t) : q \in {r \in shorter : Len(r) = n - 1}, t \in S}

StepLists == SeqsUpTo(PlayTokens, MaxSteps)

\* the file chosen in the Import and Export dialogs
ImportPath == "macros.json"

\* macro files offered to Import
ImportFiles == {
    << [name |-> "Combo", chat_command |-> "!c",
        steps |-> <<"Button:A", "Wait:5", "Button:b", "Hold:A", "Release:A",
                    "%1,-2", "Wait:5", "Junk">>] >> }

(***************************************************************************)
(* State.                                                                  *)
(***************************************************************************)
VARIABLES
    switch_socket,      \* self.switch_socket
    switch_connected,   \* self.switch_connected
    connect_btn,        \* state of the Connect button
    disconnect_btn,     \* state of the Disconnect button
    conn_status,        \* self.conn_status_var
    n_sockets,          \* sockets created so far
    unclosed,           \* connected sockets on which close() has not succeeded
    auto_timer,         \* the after(500, _connect_switch) timer is pending
    macros,             \* self.macros
    selected_index,     \* self.selected_index
    curselection,       \* selection of self.macro_listbox
    pc,                 \* where the mainloop's current callback stands
    i,                  \* cursor of _test_macro
    steps,              \* steps of the macro being played
    trace,              \* what the current playback did, in order
    test_status,        \* self.test_status_var
    manual_status,      \* self.manual_status_var
    manual_stick,       \* self.manual_stick_x/y_left/right
    wire,               \* lines written to the socket since the latest request
                        \* reached it, each with the callback that wrote it
    caught,             \* exception caught by the last callback
    escaped,            \* exception that left the last callback
    last_op,            \* last callback and its outcome
    cancel_requested,   \* a request to stop the playback waits in Tk's event queue
    steps_ref,          \* which list object each macro's 'steps' is
    step_type_var,      \* self.step_type_var
    button_var,         \* self.button_var
    hold_var,           \* self.hold_var
    release_var,        \* self.release_var
    stick_side_var,     \* self.stick_side_var
    wait_var,           \* self.wait_var
    stick_x,            \* self.stick_x
    stick_y,            \* self.stick_y
    name_var,           \* self.name_var
    trigger_var,        \* self.trigger_var
    steps_listbox,      \* rows of self.steps_listbox
    preview,            \* text of self.preview
    interp_preview,     \* text of self.interp_preview
    dialog,             \* the message box shown last
    exported            \* what the last export wrote to its file

connVars == <<switch_socket, switch_connected, connect_btn, disconnect_btn,
              conn_status, n_sockets, unclosed, auto_timer>>
libVars == <<macros, selected_index, curselection, steps_ref>>
playVars == <<pc, i, steps, trace, test_status>>
manVars == <<manual_status, manual_stick>>
wireVars == <<wire>>
obsVars == <<caught, escaped, last_op>>
queueVars == <<cancel_requested>>
panelVars == <<step_type_var, button_var, hold_var, release_var,
               stick_side_var, wait_var, stick_x, stick_y>>
formVars == <<name_var, trigger_var, steps_listbox, preview, interp_preview>>
ioVars == <<dialog, exported>>
editVars == <<panelVars, formVars, ioVars>>
vars == <<connVars, libVars, playVars, manVars, wireVars, obsVars, queueVars,
          editVars>>

(***************************************************************************)
(* The macro editor: the form, the two previews, message boxes.            *)
(***************************************************************************)
RECURSIVE Join(_, _)
\* sep.join(ss)
Join(ss, sep) ==
    IF ss = <<>> THEN ""
    ELSE IF Len(ss) = 1 THEN ss[1]
    ELSE ss[1] \o sep \o Join(Tail(ss), sep)

\* _interpret_step
InterpretStep(step) ==
    IF StartsWith(step, "Button:") THEN "Press " \o Slice(step, 7)
    ELSE IF StartsWith(step, "Hold:") THEN "Hold " \o Slice(step, 5)
    ELSE IF StartsWith(step, "Release:") THEN "Release " \o Slice(step, 8)
    ELSE IF StartsWith(step, "Stick:") THEN "Move stick to " \o Slice(step, 6)
    ELSE IF StartsWith(step, "Wait:") THEN "Wait " \o Slice(step, 5) \o " ms"
    ELSE step

\* the texts _update_preview computes from the rows ss of the steps list
RawPreview(ss) == Join(ss, ",")
InterpPreview(ss) == Join([k \in 1..Len(ss) |-> InterpretStep(ss[k])], "\n")

\* _update_preview
UpdatePreview(ss) ==
    /\ preview' = RawPreview(ss)
    /\ interp_preview' = InterpPreview(ss)

\* messagebox.showerror / showinfo
NoDialog == [kind |-> "", title |-> "", text |-> ""]
ShowError(title, text) == [kind |-> "error", title |-> title, text |-> text]
ShowInfo(title, text) == [kind |-> "info", title |-> title, text |-> text]

\* BUTTONS[0]
FirstButton == "A"

\* macro.get('trigger', '') or macro.get('chat_command', '')
TriggerShown(m) ==
    IF Get(m, "trigger", "") # "" THEN m["trigger"] ELSE Get(m, "chat_command", "")

\* name_var.set, trigger_var.set, _set_steps, _update_preview
ShowForm(name, trigger, ss) ==
    /\ name_var' = name
    /\ trigger_var' = trigger
    /\ steps_listbox' = ss
    /\ UpdatePreview(ss)

\* what _refresh_macro_list leaves in the form: the selected macro through
\* _on_select, or the empty form of _new_macro
RefreshForm(lib, sel) ==
    IF sel # NoIndex /\ 0 <= sel /\ sel < Len(lib)
    THEN ShowForm(Get(lib[sel + 1], "name", ""), TriggerShown(lib[sel + 1]),
                  Get(lib[sel + 1], "steps", <<>>))
    ELSE ShowForm("", "", <<>>)

\* the step-type panel as _build_ui leaves it; hold_var, release_var,
\* stick_side_var, wait_var, stick_x and stick_y are created with these
\* values when their panel is first built, and are not read before that
PanelBuilt ==
    /\ step_type_var = "Button"
    /\ button_var = FirstButton
    /\ hold_var = FirstButton
    /\ release_var = FirstButton
    /\ stick_side_var = "LEFT"
    /\ wait_var = "100"
    /\ stick_x = 0
    /\ stick_y = 0

\* the form showing a macro, as _on_select or _new_macro left it
FormShows(name, trigger, ss) ==
    /\ name_var = name
    /\ trigger_var = trigger
    /\ steps_listbox = ss
    /\ preview = RawPreview(ss)
    /\ interp_preview = InterpPreview(ss)

\* list objects: the smallest identity not in use
FreshRef(refs) ==
    CHOOSE r \in 1..(Len(refs) + 1) :
        /\ \A k \in 1..Len(refs) : refs[k] # r
        /\ \A q \in 1..(r - 1) : \E k \in 1..Len(refs) : refs[k] = q

RECURSIVE LoadRefs(_, _)
\* json.load builds a new list for the 'steps' of every macro that has one
LoadRefs(refs, data) ==
    IF data = <<>> THEN refs
    ELSE LoadRefs(Append(refs, IF Has(Head(data), "steps")
                               THEN FreshRef(refs) ELSE None),
                  Tail(data))

\* variant: callbacks are dispatched while another one is still running
MainloopIdle_Reentrant == TRUE

\* the Tk mainloop runs one callback at a time, to completion
MainloopIdle == pc = "idle"

\* MacroBuilderApp.__init__, with auto_connect read from the config file
Init ==
    /\ switch_socket = None
    /\ switch_connected = FALSE
    /\ connect_btn = "normal"
    /\ disconnect_btn = "disabled"
    /\ conn_status = "Disconnected"
    /\ n_sockets = 0
    /\ unclosed = {}
    /\ auto_timer \in BOOLEAN
    /\ macros = <<>>
    /\ selected_index = NoIndex
    /\ curselection = NoIndex
    /\ pc = "idle"
    /\ i = 0
    /\ steps = <<>>
    /\ trace = <<>>
    /\ test_status = ""
    /\ manual_status = ""
    /\ manual_stick = [s \in Sides |-> <<0, 0>>]
    /\ wire = <<>>
    /\ caught = NoExc
    /\ escaped = NoExc
    /\ last_op = "init"
    /\ cancel_requested = FALSE
    /\ steps_ref = <<>>
    /\ PanelBuilt
    /\ FormShows("", "", <<>>)
    /\ dialog = NoDialog
    /\ exported = <<>>

(***************************************************************************)
(* Connection.                                                             *)
(***************************************************************************)
\* variant: an unparsable port also drops the connection
ConnectInvalidPort_Reset ==
    /\ conn_status' = "Invalid port"
    /\ last_op' = "connect:invalid_port"
    /\ caught' = Exc("ValueError", "invalid literal for int()")
    /\ escaped' = NoExc
    /\ switch_socket' = None
    /\ switch_connected' = FALSE
    /\ UNCHANGED <<connect_btn, disconnect_btn, n_sockets, unclosed>>

\* the first try block of _connect_switch: int() of the port text raised
ConnectInvalidPort ==
    /\ conn_status' = "Invalid port"
    /\ last_op' = "connect:invalid_port"
    /\ caught' = Exc("ValueError", "invalid literal for int()")
    /\ escaped' = NoExc
    /\ UNCHANGED <<switch_socket, switch_connected, connect_btn,
                   disconnect_btn, n_sockets, unclosed>>

ConnectSuccess(port) ==
    /\ n_sockets' = n_sockets + 1
    /\ switch_socket' = n_sockets + 1
    /\ switch_connected' = TRUE
    /\ unclosed' = unclosed \cup {n_sockets + 1}
    /\ conn_status' = "Connected to " \o SwitchIp \o ":" \o IntToStr(port)
    /\ connect_btn' = "disabled"
    /\ disconnect_btn' = "normal"
    /\ last_op' = "connect:ok"
    /\ caught' = NoExc
    /\ escaped' = NoExc

\* variant: a failed connect forgets the socket but keeps the flag
ConnectFailure_KeepFlag(e) ==
    /\ n_sockets' = n_sockets + 1
    /\ conn_status' = "Failed: " \o e.msg
    /\ switch_socket' = None
    /\ last_op' = "connect:failed"
    /\ caught' = e
    /\ escaped' = IF ExceptException(e) THEN NoExc ELSE e
    /\ UNCHANGED <<switch_connected, connect_btn, disconnect_btn, unclosed>>

ConnectFailure(e) ==
    /\ n_sockets' = n_sockets + 1
    /\ conn_status' = "Failed: " \o e.msg
    /\ switch_socket' = None
    /\ switch_connected' = FALSE
    /\ last_op' = "connect:failed"
    /\ caught' = e
    /\ escaped' = IF ExceptException(e) THEN NoExc ELSE e
    /\ UNCHANGED <<connect_btn, disconnect_btn, unclosed>>

\* _connect_switch
ConnectSwitch ==
    \E text \in PortTexts :
        LET port == ParseInt(text)
        IN  IF ~port.ok THEN ConnectInvalidPort
            ELSE /\ n_sockets < MaxSockets
                 /\ \/ ConnectSuccess(port.val)
                    \/ \E c \in ConnectCauses : ConnectFailure(Exc("OSError", c))

\* the Connect button, command=self._connect_switch
ConnectButton ==
    /\ MainloopIdle
    /\ connect_btn = "normal"
    /\ ConnectSwitch
    /\ UNCHANGED <<auto_timer, libVars, queueVars, editVars, playVars, manVars, wireVars>>

\* self.after(500, self._connect_switch)
AutoConnectTimer ==
    /\ MainloopIdle
    /\ auto_timer
    /\ auto_timer' = FALSE
    /\ ConnectSwitch
    /\ UNCHANGED <<libVars, queueVars, editVars, playVars, manVars, wireVars>>

\* what self.switch_socket.close() can do: return, or raise
CloseOutcomes == {NoExc, Exc("OSError", "[Errno 9] Bad file descriptor")}

\* variant: close() is called outside a try block
DisconnectEffect_NoTry(c, closeExc) ==
    IF c.switch_socket # None /\ closeExc # NoExc
    THEN [c EXCEPT !.escaped = closeExc]
    ELSE [switch_socket |-> None,
          switch_connected |-> FALSE,
          conn_status |-> "Disconnected",
          connect_btn |-> "normal",
          disconnect_btn |-> "disabled",
          unclosed |-> c.unclosed \ {c.switch_socket},
          escaped |-> NoExc]

\* the effect of _disconnect_switch on the connection fields, as a function
DisconnectEffect(c, closeExc) ==
    [switch_socket |-> None,
     switch_connected |-> FALSE,
     conn_status |-> "Disconnected",
     connect_btn |-> "normal",
     disconnect_btn |-> "disabled",
     unclosed |-> IF c.switch_socket # None /\ closeExc = NoExc
                  THEN c.unclosed \ {c.switch_socket} ELSE c.unclosed,
     escaped |-> IF c.switch_socket # None /\ closeExc # NoExc
                    /\ ~ExceptException(closeExc)
                 THEN closeExc ELSE NoExc]

ConnFields ==
    [switch_socket |-> switch_socket, switch_connected |-> switch_connected,
     conn_status |-> conn_status, connect_btn |-> connect_btn,
     disconnect_btn |-> disconnect_btn, unclosed |-> unclosed,
     escaped |-> escaped]

\* _disconnect_switch, from the Disconnect button
DisconnectSwitch ==
    /\ MainloopIdle
    /\ disconnect_btn = "normal"
    /\ \E closeExc \in CloseOutcomes :
         LET r == DisconnectEffect(ConnFields, closeExc)
         IN  /\ (switch_socket = None => closeExc = NoExc)
             /\ switch_socket' = r.switch_socket
             /\ switch_connected' = r.switch_connected
             /\ conn_status' = r.conn_status
             /\ connect_btn' = r.connect_btn
             /\ disconnect_btn' = r.disconnect_btn
             /\ unclosed' = r.unclosed
             /\ escaped' = r.escaped
             /\ caught' = IF switch_socket # None THEN closeExc ELSE NoExc
    /\ last_op' = "disconnect"
    /\ UNCHANGED <<n_sockets, auto_timer, libVars, queueVars, editVars, playVars, manVars, wireVars>>

(***************************************************************************)
(* Macro library: what playback needs of it.                               *)
(***************************************************************************)
\* the loop of _import_macros that accepts 'chat_command' for 'trigger'
SyncTrigger(m) ==
    IF Has(m, "chat_command") /\ ~Has(m, "trigger")
    THEN Put(m, "trigger", m["chat_command"]) ELSE m

\* _refresh_macro_list: reselect a valid selected_index, else _new_macro
RefreshMacroList(lib, sel) ==
    IF sel # NoIndex /\ 0 <= sel /\ sel < Len(lib)
    THEN [selected_index |-> sel, curselection |-> sel]
    ELSE [selected_index |-> NoIndex, curselection |-> NoIndex]

\* _import_macros with a readable file out of files holding a list of
\* macros, while the library has room for them
ImportFrom(files, room) ==
    /\ MainloopIdle
    /\ \E data \in files :
         /\ Len(macros) + Len(data) <= room
         /\ macros' = macros \o [k \in 1..Len(data) |-> SyncTrigger(data[k])]
         /\ steps_ref' = LoadRefs(steps_ref, data)
         /\ LET r == RefreshMacroList(macros', selected_index)
            IN  /\ selected_index' = r.selected_index
                /\ curselection' = r.curselection
         /\ RefreshForm(macros', selected_index)
         /\ dialog' = ShowInfo("Import", "Imported " \o IntToStr(Len(data))
                                          \o " macros from " \o ImportPath)
    /\ last_op' = "import"
    /\ caught' = NoExc
    /\ escaped' = NoExc
    /\ UNCHANGED <<connVars, queueVars, panelVars, exported, playVars, manVars, wireVars>>

\* Import, with the macro files the playback model uses
ImportMacros == ImportFrom(ImportFiles, MaxMacros)

\* a click on a row of the macro list, then _on_select
OnSelect ==
    /\ MainloopIdle
    /\ \E idx \in 0..(Len(macros) - 1) :
         /\ curselection' = idx
         /\ selected_index' = idx
         /\ RefreshForm(macros, idx)
    /\ last_op' = "select"
    /\ caught' = NoExc
    /\ escaped' = NoExc
    /\ UNCHANGED <<macros, steps_ref, connVars, queueVars, panelVars, ioVars,
                   playVars, manVars, wireVars>>

(***************************************************************************)
(* Sending.                                                                *)
(***************************************************************************)
\* _send_sysbot_cmd: what a call can raise (NoExc: the line was written)
SendResults(sock) ==
    IF sock = None THEN {Exc("RuntimeError", "Not connected")}
    ELSE {NoExc} \cup {Exc("OSError", c) : c \in TransportCauses}

\* sendall((cmd+"\n").encode("ascii")) returned: the line is on the wire
Written(cmd) == wire' = Append(wire, [by |-> "test_macro", cmd |-> cmd])

\* variant: the guard is missing
NotConnected_NoGuard == FALSE

\* the guard `not self.switch_connected or not self.switch_socket`
NotConnected == ~switch_connected \/ switch_socket = None

(***************************************************************************)
(* Playback: _test_macro.                                                  *)
(***************************************************************************)
SettleMs == 100    \* time.sleep(0.1)

\* the if/elif chain that classifies a step by its prefix
Kind(step) ==
    IF StartsWith(step, "Button:") THEN "button"
    ELSE IF StartsWith(step, "Hold:") THEN "hold"
    ELSE IF StartsWith(step, "Release:") THEN "release"
    ELSE IF StartsWith(step, "%") THEN "lstick"
    ELSE IF StartsWith(step, "&") THEN "rstick"
    ELSE IF StartsWith(step, "Stick:") THEN "legacy"
    ELSE IF StartsWith(step, "Wait:") THEN "wait"
    ELSE "other"

\* steps[k] of Python, k from 0
StepAt(k) == steps[k + 1]

\* variant: the lookahead is never taken
NextIsWait_Never(ss, k) == FALSE

\* variant: any following step is taken for a Wait
NextIsWait_AnyNext(ss, k) == k + 1 < Len(ss)

\* next_is_wait = (i+1 < len(steps)) and steps[i+1].startswith("Wait:")
NextIsWait(ss, k) == k + 1 < Len(ss) /\ StartsWith(ss[k + 2], "Wait:")

\* where the payload of a stick token starts, and the stick it moves
StickOffset(step) == IF Kind(step) = "legacy" THEN 6 ELSE 1

\* variant: only % is the left stick
StickSide_LegacyRight(step) == IF Kind(step) = "lstick" THEN "LEFT" ELSE "RIGHT"

StickSide(step) == IF Kind(step) = "rstick" THEN "RIGHT" ELSE "LEFT"

\* variant: time.sleep(ms), the number taken for seconds
SleepFor_Seconds(text) ==
    LET ms == ParseInt(text)
    IN  IF ~ms.ok
        THEN [exc |-> Exc("ValueError",
                 "invalid literal for int() with base 10: '" \o text \o "'"),
              ms |-> 0]
        ELSE IF ms.val < 0
        THEN [exc |-> Exc("ValueError", "sleep length must be non-negative"),
              ms |-> 0]
        ELSE [exc |-> NoExc, ms |-> ms.val * 1000]

\* ms = int(text); time.sleep(ms/1000): the delay, or the exception raised
SleepFor(text) ==
    LET ms == ParseInt(text)
    IN  IF ~ms.ok
        THEN [exc |-> Exc("ValueError",
                 "invalid literal for int() with base 10: '" \o text \o "'"),
              ms |-> 0]
        ELSE IF ms.val < 0
        THEN [exc |-> Exc("ValueError", "sleep length must be non-negative"),
              ms |-> 0]
        ELSE [exc |-> NoExc, ms |-> ms.val]

EvStep(k) == [ev |-> "step", at |-> k, cmd |-> "", ms |-> 0]
EvSend(k, cmd) == [ev |-> "send", at |-> k, cmd |-> cmd, ms |-> 0]
EvSleep(k, ms) == [ev |-> "sleep", at |-> k, cmd |-> "", ms |-> ms]

\* the text _test_macro's except clause puts in the status line
ErrorStatus(e) == "Error: " \o e.msg

\* variant: the error is recorded and the loop goes on with the next step
PlayFail_GoOn(e) ==
    /\ test_status' = ErrorStatus(e)
    /\ caught' = e
    /\ escaped' = NoExc
    /\ pc' = "loop"
    /\ i' = i + 1
    /\ UNCHANGED <<steps, wire>>

\* `except Exception as e` of _test_macro: the playback ends here
PlayFail(e) ==
    /\ test_status' = ErrorStatus(e)
    /\ caught' = e
    /\ escaped' = IF ExceptException(e) THEN NoExc ELSE e
    /\ pc' = "idle"
    /\ UNCHANGED <<i, steps, wire>>

\* _test_macro up to the loop: the three refusals, or the playback starts
TestMacro ==
    /\ MainloopIdle
    /\ last_op' = "test_macro"
    /\ caught' = NoExc
    /\ escaped' = NoExc
    /\ IF NotConnected
       THEN /\ test_status' = "Not connected to Switch!"
            /\ UNCHANGED <<pc, i, steps, trace, wireVars>>
       ELSE IF curselection = NoIndex
       THEN /\ test_status' = "No macro selected."
            /\ UNCHANGED <<pc, i, steps, trace, wireVars>>
       ELSE IF Get(macros[curselection + 1], "steps", <<>>) = <<>>
       THEN /\ test_status' = "Macro has no steps."
            /\ UNCHANGED <<pc, i, steps, trace, wireVars>>
       ELSE /\ steps' = Get(macros[curselection + 1], "steps", <<>>)
            /\ i' = 0
            /\ trace' = <<>>
            /\ wire' = <<>>
            /\ pc' = "loop"
            /\ UNCHANGED test_status
    /\ UNCHANGED <<connVars, libVars, queueVars, editVars, manVars>>

\* variant: the loop ends one step early (i < len(steps) - 1)
PlayFinish_Early ==
    /\ pc = "loop"
    /\ i >= Len(steps) - 1
    /\ test_status' = "Macro sent!"
    /\ pc' = "idle"
    /\ UNCHANGED <<i, steps, trace, connVars, libVars, queueVars, editVars, manVars, wireVars, obsVars>>

\* `while i < len(steps)` is false: "Macro sent!"
PlayFinish ==
    /\ pc = "loop"
    /\ i >= Len(steps)
    /\ test_status' = "Macro sent!"
    /\ pc' = "idle"
    /\ UNCHANGED <<i, steps, trace, connVars, libVars, queueVars, editVars, manVars, wireVars, obsVars>>

\* a playback action that sends cmd for step i and goes on at (pc2, i2)
PlaySend(cmd, pre, pc2, i2) ==
    \E e \in SendResults(switch_socket) :
        IF e = NoExc
        THEN /\ Written(cmd)
             /\ trace' = trace \o pre \o <<EvSend(i, cmd)>>
             /\ pc' = pc2
             /\ i' = i2
             /\ UNCHANGED <<steps, test_status, obsVars>>
        ELSE /\ PlayFail(e)
             /\ trace' = trace \o pre
             /\ UNCHANGED last_op

\* Button:X followed by Wait: -- press
PlayTapPress ==
    /\ pc = "loop" /\ i < Len(steps)
    /\ Kind(StepAt(i)) = "button" /\ NextIsWait(steps, i)
    /\ PlaySend("press " \o Upper(Slice(StepAt(i), 7)), <<EvStep(i)>>, "tap_wait", i)
    /\ UNCHANGED <<connVars, libVars, queueVars, editVars, manVars>>

\* ... ms = int(steps[i+1][5:]); time.sleep(ms/1000)
PlayTapWait ==
    /\ pc = "tap_wait"
    /\ LET r == SleepFor(Slice(StepAt(i + 1), 5))
       IN  IF r.exc = NoExc
           THEN /\ trace' = Append(trace, EvSleep(i, r.ms))
                /\ pc' = "tap_release"
                /\ UNCHANGED <<i, steps, test_status, wireVars, obsVars>>
           ELSE /\ PlayFail(r.exc)
                /\ UNCHANGED <<trace, last_op>>
    /\ UNCHANGED <<connVars, libVars, queueVars, editVars, manVars>>

\* ... release; i += 2; continue
PlayTapRelease ==
    /\ pc = "tap_release"
    /\ PlaySend("release " \o Upper(Slice(StepAt(i), 7)), <<>>, "loop", i + 2)
    /\ UNCHANGED <<connVars, libVars, queueVars, editVars, manVars>>

\* Button:X alone -- click
PlayClick ==
    /\ pc = "loop" /\ i < Len(steps)
    /\ Kind(StepAt(i)) = "button" /\ ~NextIsWait(steps, i)
    /\ PlaySend("click " \o Upper(Slice(StepAt(i), 7)), <<EvStep(i)>>, "settle", i)
    /\ UNCHANGED <<connVars, libVars, queueVars, editVars, manVars>>

\* variant: the cursor moves on by two, as after a press/wait/release
PlaySettle_Skip ==
    /\ pc = "settle"
    /\ trace' = Append(trace, EvSleep(i, SettleMs))
    /\ i' = i + 2
    /\ pc' = "loop"
    /\ UNCHANGED <<steps, test_status, connVars, libVars, queueVars, editVars, manVars, wireVars, obsVars>>

\* time.sleep(0.1) after a click or a setStick; i += 1
PlaySettle ==
    /\ pc = "settle"
    /\ trace' = Append(trace, EvSleep(i, SettleMs))
    /\ i' = i + 1
    /\ pc' = "loop"
    /\ UNCHANGED <<steps, test_status, connVars, libVars, queueVars, editVars, manVars, wireVars, obsVars>>

\* variant: Hold is followed by the settle delay of a tap
PlayHold_Settle ==
    /\ pc = "loop" /\ i < Len(steps)
    /\ Kind(StepAt(i)) = "hold"
    /\ PlaySend("press " \o Upper(Slice(StepAt(i), 5)), <<EvStep(i)>>, "settle", i)
    /\ UNCHANGED <<connVars, libVars, queueVars, editVars, manVars>>

\* Hold:X -- press; i += 1
PlayHold ==
    /\ pc = "loop" /\ i < Len(steps)
    /\ Kind(StepAt(i)) = "hold"
    /\ PlaySend("press " \o Upper(Slice(StepAt(i), 5)), <<EvStep(i)>>, "loop", i + 1)
    /\ UNCHANGED <<connVars, libVars, queueVars, editVars, manVars>>

\* variant: the button name is cut as for Button: (step[7:])
PlayRelease_Offset ==
    /\ pc = "loop" /\ i < Len(steps)
    /\ Kind(StepAt(i)) = "release"
    /\ PlaySend("release " \o Upper(Slice(StepAt(i), 7)), <<EvStep(i)>>, "loop", i + 1)
    /\ UNCHANGED <<connVars, libVars, queueVars, editVars, manVars>>

\* Release:X -- release; i += 1
PlayRelease ==
    /\ pc = "loop" /\ i < Len(steps)
    /\ Kind(StepAt(i)) = "release"
    /\ PlaySend("release " \o Upper(Slice(StepAt(i), 8)), <<EvStep(i)>>, "loop", i + 1)
    /\ UNCHANGED <<connVars, libVars, queueVars, editVars, manVars>>

\* %x,y  &x,y  Stick:x,y -- setStick when the payload has two fields
PlayStick ==
    /\ pc = "loop" /\ i < Len(steps)
    /\ Kind(StepAt(i)) \in {"lstick", "rstick", "legacy"}
    /\ LET step == StepAt(i)
           xy == Split(Slice(step, StickOffset(step)), ",")
       IN  IF Len(xy) = 2
           THEN LET x == ParseInt(xy[1])
                    y == ParseInt(xy[2])
                IN  IF x.ok /\ y.ok
                    THEN PlaySend("setStick " \o StickSide(step) \o " "
                                    \o IntToStr(x.val) \o " " \o IntToStr(y.val),
                                  <<EvStep(i)>>, "settle", i)
                    ELSE /\ PlayFail(Exc("ValueError",
                               "invalid literal for int() with base 10: '"
                               \o (IF x.ok THEN xy[2] ELSE xy[1]) \o "'"))
                         /\ trace' = Append(trace, EvStep(i))
                         /\ UNCHANGED last_op
           ELSE /\ trace' = Append(trace, EvStep(i))
                /\ i' = i + 1
                /\ UNCHANGED <<pc, steps, test_status, wireVars, obsVars>>
    /\ UNCHANGED <<connVars, libVars, queueVars, editVars, manVars>>

\* Wait:ms -- sleep; i += 1
PlayWait ==
    /\ pc = "loop" /\ i < Len(steps)
    /\ Kind(StepAt(i)) = "wait"
    /\ LET r == SleepFor(Slice(StepAt(i), 5))
       IN  IF r.exc = NoExc
           THEN /\ trace' = trace \o <<EvStep(i), EvSleep(i, r.ms)>>
                /\ i' = i + 1
                /\ UNCHANGED <<pc, steps, test_status, wireVars, obsVars>>
           ELSE /\ PlayFail(r.exc)
                /\ trace' = Append(trace, EvStep(i))
                /\ UNCHANGED last_op
    /\ UNCHANGED <<connVars, libVars, queueVars, editVars, manVars>>

\* variant: the fall-through branch goes round without moving the cursor
PlaySkip_Stay ==
    /\ pc = "loop" /\ i < Len(steps)
    /\ Kind(StepAt(i)) = "other"
    /\ trace' = Append(trace, EvStep(i))
    /\ UNCHANGED <<i, pc, steps, test_status, connVars, libVars, queueVars, editVars, manVars, wireVars, obsVars>>

\* no branch of the chain matches: i += 1
PlaySkip ==
    /\ pc = "loop" /\ i < Len(steps)
    /\ Kind(StepAt(i)) = "other"
    /\ trace' = Append(trace, EvStep(i))
    /\ i' = i + 1
    /\ UNCHANGED <<pc, steps, test_status, connVars, libVars, queueVars, editVars, manVars, wireVars, obsVars>>

Playback ==
    \/ PlayFinish \/ PlayTapPress \/ PlayTapWait \/ PlayTapRelease
    \/ PlayClick \/ PlaySettle \/ PlayHold \/ PlayRelease
    \/ PlayStick \/ PlayWait \/ PlaySkip

\* the commands _test_macro writes from step k on when every send succeeds
RECURSIVE PlayCommands(_, _)
PlayCommands(ss, k) ==
    IF k >= Len(ss) THEN <<>>
    ELSE LET step == ss[k + 1]
             kind == Kind(step)
         IN  IF kind = "button" /\ NextIsWait(ss, k)
             THEN <<"press " \o Upper(Slice(step, 7))>>
                  \o (IF SleepFor(Slice(ss[k + 2], 5)).exc = NoExc
                      THEN <<"release " \o Upper(Slice(step, 7))>>
                           \o PlayCommands(ss, k + 2)
                      ELSE <<>>)
             ELSE IF kind = "button"
             THEN <<"click " \o Upper(Slice(step, 7))>> \o PlayCommands(ss, k + 1)
             ELSE IF kind = "hold"
             THEN <<"press " \o Upper(Slice(step, 5))>> \o PlayCommands(ss, k + 1)
             ELSE IF kind = "release"
             THEN <<"release " \o Upper(Slice(step, 8))>> \o PlayCommands(ss, k + 1)
             ELSE IF kind \in {"lstick", "rstick", "legacy"}
             THEN LET xy == Split(Slice(step, StickOffset(step)), ",")
                  IN  IF Len(xy) # 2 THEN PlayCommands(ss, k + 1)
                      ELSE IF ParseInt(xy[1]).ok /\ ParseInt(xy[2]).ok
                      THEN <<"setStick " \o StickSide(step) \o " "
                               \o IntToStr(ParseInt(xy[1]).val) \o " "
                               \o IntToStr(ParseInt(xy[2]).val)>>
                           \o PlayCommands(ss, k + 1)
                      ELSE <<>>
             ELSE IF kind = "wait"
             THEN IF SleepFor(Slice(step, 5)).exc = NoExc
                  THEN PlayCommands(ss, k + 1) ELSE <<>>
             ELSE PlayCommands(ss, k + 1)

(***************************************************************************)
(* Manual controls.                                                        *)
(***************************************************************************)
\* int(q) of the float a/b, b > 0: truncation toward zero
TruncDiv(a, b) == IF a >= 0 THEN a \div b ELSE 0 - ((0 - a) \div b)

StickMax == 32767
CanvasSize == 140

\* variant: the position is taken as computed, without the clamp
Clamp_None(v) == v

\* max(-32767, min(32767, v))
Clamp(v) == IF v > StickMax THEN StickMax ELSE IF v < 0 - StickMax THEN 0 - StickMax ELSE v

\* the stick position _manual_stick_grid_click computes from event.x, event.y
StickFromPointer(ex, ey) ==
    << Clamp(TruncDiv(ex * 2 * StickMax - StickMax * CanvasSize, CanvasSize)),
       Clamp(TruncDiv((CanvasSize - ey) * 2 * StickMax - StickMax * CanvasSize,
                      CanvasSize)) >>

\* the guarded send all three manual callbacks share
ManualSend(by, cmd, okText) ==
    IF NotConnected
    THEN /\ manual_status' = "Not connected to Switch!"
         /\ caught' = NoExc
         /\ escaped' = NoExc
         /\ UNCHANGED wireVars
    ELSE \E e \in SendResults(switch_socket) :
              IF e = NoExc
              THEN /\ wire' = <<[by |-> by, cmd |-> cmd]>>
                   /\ manual_status' = okText
                   /\ caught' = NoExc
                   /\ escaped' = NoExc
              ELSE /\ manual_status' = "Error: " \o e.msg
                   /\ caught' = e
                   /\ escaped' = IF ExceptException(e) THEN NoExc ELSE e
                   /\ wire' = <<>>

\* _manual_click_button
ManualClickButton ==
    /\ MainloopIdle
    /\ \E btn \in ManualButtons :
         ManualSend("manual_click", "click " \o btn, "Clicked: " \o btn)
    /\ last_op' = "manual_click"
    /\ UNCHANGED <<manual_stick, connVars, libVars, queueVars, editVars, playVars>>

\* _manual_stick_grid_click, for a pointer position out of events
ManualStickGridClickAt(events) ==
    /\ MainloopIdle
    /\ \E p \in events, side \in Sides :
         LET xy == StickFromPointer(p[1], p[2])
         IN  /\ manual_stick' = [manual_stick EXCEPT ![side] = xy]
             /\ ManualSend("manual_stick", "setStick " \o side \o " " \o IntToStr(xy[1])
                             \o " " \o IntToStr(xy[2]),
                           (IF side = "LEFT" THEN "Sent left stick: "
                                             ELSE "Sent right stick: ")
                             \o IntToStr(xy[1]) \o "," \o IntToStr(xy[2]))
    /\ last_op' = "manual_stick"
    /\ UNCHANGED <<connVars, libVars, queueVars, editVars, playVars>>

\* a click on the centre of a stick canvas of the Manual tab
ManualStickGridClick == ManualStickGridClickAt(PointerEvents)

\* _manual_stick_release
ManualStickRelease ==
    /\ MainloopIdle
    /\ \E side \in Sides :
         /\ manual_stick' = [manual_stick EXCEPT ![side] = <<0, 0>>]
         /\ ManualSend("manual_release", "setStick " \o side \o " 0 0",
                       IF side = "LEFT" THEN "Sent left stick release (center)"
                                        ELSE "Sent right stick release (center)")
    /\ last_op' = "manual_release"
    /\ UNCHANGED <<connVars, libVars, queueVars, editVars, playVars>>

(***************************************************************************)
(* The step editor: the step-type panel, the stick picker, Add Step.       *)
(***************************************************************************)
\* the radio buttons of the step type
StepTypes == {"Button", "Hold", "Release", "Stick Move", "Wait"}

\* texts typed into the Wait (ms) entry
WaitTexts == {"100", "250", " 7 ", "0", "-5", "abc", ""}

\* pointer positions delivered to a stick canvas, on it and beyond its
\* edges; at each of them the float arithmetic of the code and exact
\* arithmetic give the same integers
WidePointerEvents ==
    {<<70, 70>>, <<-5, -9>>, <<0, 140>>, <<35, 105>>, <<139, 1>>, <<200, 300>>}

\* _update_step_type_panel, from a radio button: the panel of the chosen
\* type is built anew, with the default of its variable
UpdateStepTypePanel ==
    /\ MainloopIdle
    /\ \E t \in StepTypes :
         /\ step_type_var' = t
         /\ button_var' = IF t = "Button" THEN FirstButton ELSE button_var
         /\ hold_var' = IF t = "Hold" THEN FirstButton ELSE hold_var
         /\ release_var' = IF t = "Release" THEN FirstButton ELSE release_var
         /\ stick_side_var' = IF t = "Stick Move" THEN "LEFT" ELSE stick_side_var
         /\ stick_x' = IF t = "Stick Move" THEN 0 ELSE stick_x
         /\ stick_y' = IF t = "Stick Move" THEN 0 ELSE stick_y
         /\ wait_var' = IF t = "Wait" THEN "100" ELSE wait_var
    /\ last_op' = "step_type"
    /\ caught' = NoExc
    /\ escaped' = NoExc
    /\ UNCHANGED <<formVars, ioVars, connVars, libVars, queueVars, playVars,
                   manVars, wireVars>>

\* the combobox of the Stick Move panel
SelectStickSide ==
    /\ MainloopIdle
    /\ step_type_var = "Stick Move"
    /\ \E side \in Sides : stick_side_var' = side
    /\ last_op' = "stick_side"
    /\ caught' = NoExc
    /\ escaped' = NoExc
    /\ UNCHANGED <<step_type_var, button_var, hold_var, release_var, wait_var,
                   stick_x, stick_y, formVars, ioVars, connVars, libVars,
                   queueVars, playVars, manVars, wireVars>>

\* _on_stick_grid_click
OnStickGridClick ==
    /\ MainloopIdle
    /\ step_type_var = "Stick Move"
    /\ \E p \in WidePointerEvents :
         /\ stick_x' = StickFromPointer(p[1], p[2])[1]
         /\ stick_y' = StickFromPointer(p[1], p[2])[2]
    /\ last_op' = "stick_grid"
    /\ caught' = NoExc
    /\ escaped' = NoExc
    /\ UNCHANGED <<step_type_var, button_var, hold_var, release_var, wait_var,
                   stick_side_var, formVars, ioVars, connVars, libVars,
                   queueVars, playVars, manVars, wireVars>>

\* variant: the right stick is written with the left stick's mark
StepFromPanel_RightAsLeft ==
    IF step_type_var = "Button"
    THEN [ok |-> TRUE, step |-> "Button:" \o button_var]
    ELSE IF step_type_var = "Hold"
    THEN [ok |-> TRUE, step |-> "Hold:" \o hold_var]
    ELSE IF step_type_var = "Release"
    THEN [ok |-> TRUE, step |-> "Release:" \o release_var]
    ELSE IF step_type_var = "Stick Move"
    THEN [ok |-> TRUE,
          step |-> "%" \o IntToStr(stick_x) \o "," \o IntToStr(stick_y)]
    ELSE LET ms == ParseInt(wait_var)
         IN  IF ms.ok /\ ms.val >= 1
             THEN [ok |-> TRUE, step |-> "Wait:" \o IntToStr(ms.val)]
             ELSE [ok |-> FALSE, step |-> ""]

\* the token _add_step builds from the panel; ok is FALSE where the wait
\* time is refused
StepFromPanel ==
    IF step_type_var = "Button"
    THEN [ok |-> TRUE, step |-> "Button:" \o button_var]
    ELSE IF step_type_var = "Hold"
    THEN [ok |-> TRUE, step |-> "Hold:" \o hold_var]
    ELSE IF step_type_var = "Release"
    THEN [ok |-> TRUE, step |-> "Release:" \o release_var]
    ELSE IF step_type_var = "Stick Move"
    THEN [ok |-> TRUE,
          step |-> (IF stick_side_var = "LEFT" THEN "%" ELSE "&")
                   \o IntToStr(stick_x) \o "," \o IntToStr(stick_y)]
    ELSE LET ms == ParseInt(wait_var)
         IN  IF ms.ok /\ ms.val >= 1
             THEN [ok |-> TRUE, step |-> "Wait:" \o IntToStr(ms.val)]
             ELSE [ok |-> FALSE, step |-> ""]

\* list.insert(idx, step), steps_listbox.insert(idx, step)
InsertAt(ss, idx, step) ==
    SubSeq(ss, 1, idx) \o <<step>> \o SubSeq(ss, idx + 1, Len(ss))

\* steps_listbox.curselection(): the row the user clicked last, or none
StepRows(ss) == {NoIndex} \cup (0..(Len(ss) - 1))

\* _insert_step
InsertStep(step) ==
    \E sel \in StepRows(steps_listbox) :
        /\ steps_listbox' =
             InsertAt(steps_listbox,
                      IF sel # NoIndex THEN sel ELSE Len(steps_listbox), step)
        /\ UpdatePreview(steps_listbox')

\* _add_step, from the Add Step button
AddStep ==
    /\ MainloopIdle
    /\ Len(steps_listbox) < MaxSteps
    /\ IF StepFromPanel.ok
       THEN /\ InsertStep(StepFromPanel.step)
            /\ last_op' = "add_step"
            /\ caught' = NoExc
            /\ UNCHANGED dialog
       ELSE /\ dialog' = ShowError("Error", "Wait time must be a positive integer (ms)")
            /\ last_op' = "add_step:refused"
            /\ caught' = Exc("ValueError", "")
            /\ UNCHANGED <<steps_listbox, preview, interp_preview>>
    /\ escaped' = NoExc
    /\ UNCHANGED <<name_var, trigger_var, exported, panelVars, connVars, libVars,
                   queueVars, playVars, manVars, wireVars>>

\* _add_stick_release, from the button under the stick picker
AddStickRelease ==
    /\ MainloopIdle
    /\ step_type_var = "Stick Move"
    /\ Len(steps_listbox) < MaxSteps
    /\ stick_x' = 0
    /\ stick_y' = 0
    /\ InsertStep(IF stick_side_var = "RIGHT" THEN "&0,0" ELSE "%0,0")
    /\ last_op' = "add_stick_release"
    /\ caught' = NoExc
    /\ escaped' = NoExc
    /\ UNCHANGED <<step_type_var, button_var, hold_var, release_var, wait_var,
                   stick_side_var, name_var, trigger_var, ioVars, connVars,
                   libVars, queueVars, playVars, manVars, wireVars>>

\* what _test_macro reads in one step token: the branch of its chain that
\* takes the token, and the fields that branch cuts out of it
DecodeStep(step) ==
    LET kind == Kind(step)
    IN  IF kind = "button"
        THEN [kind |-> "tap", button |-> Upper(Slice(step, 7))]
        ELSE IF kind = "hold"
        THEN [kind |-> "hold", button |-> Upper(Slice(step, 5))]
        ELSE IF kind = "release"
        THEN [kind |-> "release", button |-> Upper(Slice(step, 8))]
        ELSE IF kind \in {"lstick", "rstick", "legacy"}
        THEN LET xy == Split(Slice(step, StickOffset(step)), ",")
             IN  IF Len(xy) # 2 THEN [kind |-> "skipped"]
                 ELSE IF ParseInt(xy[1]).ok /\ ParseInt(xy[2]).ok
                 THEN [kind |-> "stick", side |-> StickSide(step),
                       x |-> ParseInt(xy[1]).val, y |-> ParseInt(xy[2]).val]
                 ELSE [kind |-> "raises"]
        ELSE IF kind = "wait"
        THEN IF SleepFor(Slice(step, 5)).exc = NoExc
             THEN [kind |-> "wait", ms |-> SleepFor(Slice(step, 5)).ms]
             ELSE [kind |-> "raises"]
        ELSE [kind |-> "skipped"]

(***************************************************************************)
(* Add Step alone: the application as it starts, with a step-type panel    *)
(* the user has set up: a type chosen, a button picked in its combobox, a  *)
(* text typed into the wait entry, a position clicked on the picker.       *)
(***************************************************************************)
InitEncode ==
    /\ switch_socket = None
    /\ switch_connected = FALSE
    /\ connect_btn = "normal"
    /\ disconnect_btn = "disabled"
    /\ conn_status = "Disconnected"
    /\ n_sockets = 0
    /\ unclosed = {}
    /\ auto_timer = FALSE
    /\ macros = <<>>
    /\ selected_index = NoIndex
    /\ curselection = NoIndex
    /\ steps_ref = <<>>
    /\ pc = "idle"
    /\ i = 0
    /\ steps = <<>>
    /\ trace = <<>>
    /\ test_status = ""
    /\ manual_status = ""
    /\ manual_stick = [s \in Sides |-> <<0, 0>>]
    /\ wire = <<>>
    /\ caught = NoExc
    /\ escaped = NoExc
    /\ last_op = "init"
    /\ cancel_requested = FALSE
    /\ step_type_var \in StepTypes
    /\ button_var \in (IF step_type_var = "Button" THEN BUTTONS ELSE {FirstButton})
    /\ hold_var \in (IF step_type_var = "Hold" THEN BUTTONS ELSE {FirstButton})
    /\ release_var \in (IF step_type_var = "Release" THEN BUTTONS ELSE {FirstButton})
    /\ stick_side_var \in (IF step_type_var = "Stick Move" THEN Sides ELSE {"LEFT"})
    /\ wait_var \in (IF step_type_var = "Wait" THEN WaitTexts ELSE {"100"})
    /\ \E p \in (IF step_type_var = "Stick Move" THEN WidePointerEvents
                                                ELSE {<<70, 70>>}) :
         /\ stick_x = StickFromPointer(p[1], p[2])[1]
         /\ stick_y = StickFromPointer(p[1], p[2])[2]
    /\ FormShows("", "", <<>>)
    /\ dialog = NoDialog
    /\ exported = <<>>

SpecEncode == InitEncode /\ [][AddStep \/ AddStickRelease]_vars

(***************************************************************************)
(* The macro library: new, save, delete, move, clone, import, export.      *)
(***************************************************************************)
\* texts typed into the name entry and into the trigger entry
NameTexts == {"M"}
TriggerTexts == {"!m"}

\* macro files offered to Import in the library editor: a record with a
\* trigger and a different chat_command, and a record with no name, no
\* steps and a chat_command only
LibraryFiles == {
    << [name |-> "M", trigger |-> "!m", chat_command |-> "!old",
        steps |-> <<"Button:A">>] >>,
    << [chat_command |-> "!c", steps |-> <<>>] >> }

\* the user types into the name entry: name_var follows
TypeName ==
    /\ MainloopIdle
    /\ \E text \in NameTexts : name_var' = text
    /\ last_op' = "type_name"
    /\ caught' = NoExc
    /\ escaped' = NoExc
    /\ UNCHANGED <<trigger_var, steps_listbox, preview, interp_preview, panelVars,
                   ioVars, connVars, libVars, queueVars, playVars, manVars, wireVars>>

\* the user types into the trigger entry: trigger_var follows
TypeTrigger ==
    /\ MainloopIdle
    /\ \E text \in TriggerTexts : trigger_var' = text
    /\ last_op' = "type_trigger"
    /\ caught' = NoExc
    /\ escaped' = NoExc
    /\ UNCHANGED <<name_var, steps_listbox, preview, interp_preview, panelVars,
                   ioVars, connVars, libVars, queueVars, playVars, manVars, wireVars>>

\* _new_macro, from the New button
NewMacro ==
    /\ MainloopIdle
    /\ selected_index' = NoIndex
    /\ curselection' = NoIndex
    /\ ShowForm("", "", <<>>)
    /\ last_op' = "new"
    /\ caught' = NoExc
    /\ escaped' = NoExc
    /\ UNCHANGED <<macros, steps_ref, panelVars, ioVars, connVars, queueVars,
                   playVars, manVars, wireVars>>

\* variant: a macro without steps is accepted
SaveError_StepsOptional(name, trigger, ss) ==
    IF name = "" THEN "Macro name is required."
    ELSE IF trigger = "" THEN "Trigger is required."
    ELSE ""

\* what _save_macro requires of the form: the text of the error, "" when it saves
SaveError(name, trigger, ss) ==
    IF name = "" THEN "Macro name is required."
    ELSE IF trigger = "" THEN "Trigger is required."
    ELSE IF ss = <<>> THEN "At least one step is required."
    ELSE ""

\* self.selected_index is an index of self.macros
SelectionValid ==
    selected_index # NoIndex /\ 0 <= selected_index /\ selected_index < Len(macros)

\* variant: the selection is not looked at, every save adds an entry
SaveMacro_AlwaysAppend ==
    /\ MainloopIdle
    /\ LET name == Strip(name_var)
           trigger == Strip(trigger_var)
           macro == [name |-> name, trigger |-> trigger,
                     chat_command |-> trigger, steps |-> steps_listbox]
       IN  IF SaveError(name, trigger, steps_listbox) # ""
           THEN /\ dialog' = ShowError("Error", SaveError(name, trigger, steps_listbox))
                /\ last_op' = "save:refused"
                /\ UNCHANGED <<libVars, formVars>>
           ELSE /\ SelectionValid \/ Len(macros) < MaxLibrary
                /\ macros' = Append(macros, macro)
                /\ steps_ref' = Append(steps_ref, FreshRef(steps_ref))
                /\ selected_index' = Len(macros)
                /\ curselection' = selected_index'
                /\ RefreshForm(macros', selected_index')
                /\ dialog' = ShowInfo("Saved", "Macro '" \o name \o "' saved.")
                /\ last_op' = "save"
    /\ caught' = NoExc
    /\ escaped' = NoExc
    /\ UNCHANGED <<exported, panelVars, connVars, queueVars, playVars, manVars,
                   wireVars>>

\* _save_macro, from the Save button
SaveMacro ==
    /\ MainloopIdle
    /\ LET name == Strip(name_var)
           trigger == Strip(trigger_var)
           macro == [name |-> name, trigger |-> trigger,
                     chat_command |-> trigger, steps |-> steps_listbox]
       IN  IF SaveError(name, trigger, steps_listbox) # ""
           THEN /\ dialog' = ShowError("Error", SaveError(name, trigger, steps_listbox))
                /\ last_op' = "save:refused"
                /\ UNCHANGED <<libVars, formVars>>
           ELSE /\ SelectionValid \/ Len(macros) < MaxLibrary
                /\ macros' = IF SelectionValid
                             THEN [macros EXCEPT ![selected_index + 1] = macro]
                             ELSE Append(macros, macro)
                /\ steps_ref' = IF SelectionValid
                                THEN [steps_ref EXCEPT ![selected_index + 1] =
                                                          FreshRef(steps_ref)]
                                ELSE Append(steps_ref, FreshRef(steps_ref))
                /\ selected_index' = IF SelectionValid THEN selected_index
                                                       ELSE Len(macros)
                /\ curselection' = selected_index'
                /\ RefreshForm(macros', selected_index')
                /\ dialog' = ShowInfo("Saved", "Macro '" \o name \o "' saved.")
                /\ last_op' = "save"
    /\ caught' = NoExc
    /\ escaped' = NoExc
    /\ UNCHANGED <<exported, panelVars, connVars, queueVars, playVars, manVars,
                   wireVars>>

\* del self.macros[idx]
Without(q, idx) == SubSeq(q, 1, idx) \o SubSeq(q, idx + 2, Len(q))

\* _delete_macro, from the Delete button
DeleteMacro ==
    /\ MainloopIdle
    /\ IF curselection = NoIndex
       THEN UNCHANGED <<libVars, formVars>>
       ELSE /\ macros' = Without(macros, curselection)
            /\ steps_ref' = Without(steps_ref, curselection)
            /\ selected_index' = NoIndex
            /\ curselection' = NoIndex
            /\ ShowForm("", "", <<>>)
    /\ last_op' = "delete"
    /\ caught' = NoExc
    /\ escaped' = NoExc
    /\ UNCHANGED <<ioVars, panelVars, connVars, queueVars, playVars, manVars,
                   wireVars>>

\* a, b = b, a on the entries at Python indices j and j + 1
Swapped(q, j) == [q EXCEPT ![j + 1] = q[j + 2], ![j + 2] = q[j + 1]]

\* variant: the entries are exchanged and the selection stays where it was
MoveUp_KeepIndex ==
    /\ MainloopIdle
    /\ IF selected_index # NoIndex /\ selected_index > 0
       THEN /\ macros' = Swapped(macros, selected_index - 1)
            /\ steps_ref' = Swapped(steps_ref, selected_index - 1)
            /\ selected_index' = selected_index
            /\ curselection' = selected_index'
            /\ RefreshForm(macros', selected_index')
       ELSE UNCHANGED <<libVars, formVars>>
    /\ last_op' = "move_up"
    /\ caught' = NoExc
    /\ escaped' = NoExc
    /\ UNCHANGED <<ioVars, panelVars, connVars, queueVars, playVars, manVars,
                   wireVars>>

\* _move_up, from the Up button
MoveUp ==
    /\ MainloopIdle
    /\ IF selected_index # NoIndex /\ selected_index > 0
       THEN /\ macros' = Swapped(macros, selected_index - 1)
            /\ steps_ref' = Swapped(steps_ref, selected_index - 1)
            /\ selected_index' = selected_index - 1
            /\ curselection' = selected_index'
            /\ RefreshForm(macros', selected_index')
       ELSE UNCHANGED <<libVars, formVars>>
    /\ last_op' = "move_up"
    /\ caught' = NoExc
    /\ escaped' = NoExc
    /\ UNCHANGED <<ioVars, panelVars, connVars, queueVars, playVars, manVars,
                   wireVars>>

\* _move_down, from the Down button
MoveDown ==
    /\ MainloopIdle
    /\ IF selected_index # NoIndex /\ selected_index < Len(macros) - 1
       THEN /\ macros' = Swapped(macros, selected_index)
            /\ steps_ref' = Swapped(steps_ref, selected_index)
            /\ selected_index' = selected_index + 1
            /\ curselection' = selected_index'
            /\ RefreshForm(macros', selected_index')
       ELSE UNCHANGED <<libVars, formVars>>
    /\ last_op' = "move_down"
    /\ caught' = NoExc
    /\ escaped' = NoExc
    /\ UNCHANGED <<ioVars, panelVars, connVars, queueVars, playVars, manVars,
                   wireVars>>

RECURSIVE CopyDepth(_)
\* how many times " (Copy)" ends a name
CopyDepth(name) ==
    IF Len(name) >= 7 /\ SubSeq(name, Len(name) - 6, Len(name)) = " (Copy)"
    THEN 1 + CopyDepth(SubSeq(name, 1, Len(name) - 7))
    ELSE 0

\* _clone_macro, from the Clone button: dict.copy() copies the reference
\* to the steps list, so the clone's steps are the original's list
CloneMacro ==
    /\ MainloopIdle
    /\ IF selected_index = NoIndex
       THEN /\ escaped' = NoExc
            /\ UNCHANGED <<libVars, formVars>>
       ELSE LET m == macros[selected_index + 1]
            IN  IF ~Has(m, "name")
                THEN /\ escaped' = Exc("KeyError", "'name'")
                     /\ UNCHANGED <<libVars, formVars>>
                ELSE /\ Len(macros) < MaxLibrary
                     /\ CopyDepth(m["name"]) < MaxCopies
                     /\ macros' = InsertAt(macros, selected_index + 1,
                                           Put(m, "name", m["name"] \o " (Copy)"))
                     /\ steps_ref' = InsertAt(steps_ref, selected_index + 1,
                                              steps_ref[selected_index + 1])
                     /\ selected_index' = selected_index + 1
                     /\ curselection' = selected_index'
                     /\ RefreshForm(macros', selected_index')
                     /\ escaped' = NoExc
    /\ last_op' = "clone"
    /\ caught' = NoExc
    /\ UNCHANGED <<ioVars, panelVars, connVars, queueVars, playVars, manVars,
                   wireVars>>

\* what open(path, "w") can do in _export_macros: return, or raise
ExportOutcomes == {NoExc, Exc("PermissionError", "[Errno 13] Permission denied")}

\* _export_macros, from the Export button, with a file chosen
ExportMacros ==
    /\ MainloopIdle
    /\ IF macros = <<>>
       THEN /\ dialog' = ShowInfo("Export", "No macros to export.")
            /\ caught' = NoExc
            /\ UNCHANGED exported
       ELSE \E e \in ExportOutcomes :
              /\ caught' = e
              /\ IF e = NoExc
                 THEN /\ exported' = [k \in 1..Len(macros) |->
                                        Put(macros[k], "chat_command",
                                            Get(macros[k], "trigger", ""))]
                      /\ dialog' = ShowInfo("Export", "Exported "
                                     \o IntToStr(Len(macros)) \o " macros to "
                                     \o ImportPath)
                 ELSE /\ dialog' = ShowError("Export Error", e.msg)
                      /\ UNCHANGED exported
    /\ last_op' = "export"
    /\ escaped' = NoExc
    /\ UNCHANGED <<libVars, formVars, panelVars, connVars, queueVars, playVars,
                   manVars, wireVars>>

\* _import_macros in the library editor
ImportLibrary == ImportFrom(LibraryFiles, MaxLibrary)

InitLibrary == Init /\ ~auto_timer

NextLibrary ==
    \/ NewMacro \/ OnSelect \/ TypeName \/ TypeTrigger \/ AddStep
    \/ SaveMacro \/ DeleteMacro \/ MoveUp \/ MoveDown \/ CloneMacro
    \/ ImportLibrary

SpecLibrary == InitLibrary /\ [][NextLibrary]_vars

(***************************************************************************)
(* Import and export, with the operations that rewrite a library entry.    *)
(***************************************************************************)
SpecExchange ==
    InitLibrary /\ [][ \/ ImportLibrary \/ ExportMacros \/ OnSelect
                       \/ CloneMacro \/ SaveMacro ]_vars

(***************************************************************************)
(* Save alone: the application with a library, a selection and a form the  *)
(* user has filled in.                                                     *)
(***************************************************************************)
\* libraries, and the texts and rows of the form, at the time Save is clicked
SaveLibraries == {
    <<>>,
    << [name |-> "M", trigger |-> "!m", chat_command |-> "!m",
        steps |-> <<"Button:A">>] >>,
    << [name |-> "M", trigger |-> "!m", chat_command |-> "!m",
        steps |-> <<"Button:A">>],
       [name |-> "N", trigger |-> "!n", chat_command |-> "!n",
        steps |-> <<"Wait:5">>] >> }
SaveForms == [name : {"", " ", "M", " M "},
              trigger : {"", " ", "!m"},
              rows : SeqsUpTo({"Button:A", "Wait:5"}, MaxSteps)]

InitSave ==
    /\ switch_socket = None
    /\ switch_connected = FALSE
    /\ connect_btn = "normal"
    /\ disconnect_btn = "disabled"
    /\ conn_status = "Disconnected"
    /\ n_sockets = 0
    /\ unclosed = {}
    /\ auto_timer = FALSE
    /\ macros \in SaveLibraries
    /\ steps_ref = [k \in 1..Len(macros) |-> k]
    /\ selected_index \in {NoIndex} \cup (0..(Len(macros) - 1))
    /\ curselection = selected_index
    /\ pc = "idle"
    /\ i = 0
    /\ steps = <<>>
    /\ trace = <<>>
    /\ test_status = ""
    /\ manual_status = ""
    /\ manual_stick = [s \in Sides |-> <<0, 0>>]
    /\ wire = <<>>
    /\ caught = NoExc
    /\ escaped = NoExc
    /\ last_op = "init"
    /\ cancel_requested = FALSE
    /\ PanelBuilt
    /\ \E f \in SaveForms : FormShows(f.name, f.trigger, f.rows)
    /\ dialog = NoDialog
    /\ exported = <<>>

SpecSave == InitSave /\ [][SaveMacro]_vars

(***************************************************************************)
(* The selection of the macro list, with the operations that move it.      *)
(***************************************************************************)
\* another widget takes the selection (a row of the steps list is clicked,
\* text is selected in an entry): macro_listbox, created with exportselection
\* at its default, loses its own.  Tk then raises <<ListboxSelect>> on it and
\* _on_select finds no row selected; older versions of Tk raise nothing
LoseSelection ==
    /\ MainloopIdle
    /\ curselection # NoIndex
    /\ curselection' = NoIndex
    /\ \E raised \in BOOLEAN :
         selected_index' = IF raised THEN NoIndex ELSE selected_index
    /\ last_op' = "lose_selection"
    /\ caught' = NoExc
    /\ escaped' = NoExc
    /\ UNCHANGED <<macros, steps_ref, editVars, connVars, queueVars, playVars,
                   manVars, wireVars>>

SpecSelect ==
    InitLibrary /\ [][ \/ NewMacro \/ OnSelect \/ LoseSelection \/ SaveMacro
                       \/ DeleteMacro \/ MoveUp \/ MoveDown \/ CloneMacro
                       \/ ImportLibrary ]_vars

(***************************************************************************)
(* The application: callbacks run by the mainloop, one at a time.          *)
(***************************************************************************)
Next ==
    \/ ConnectButton \/ AutoConnectTimer \/ DisconnectSwitch
    \/ ImportMacros \/ OnSelect
    \/ TestMacro \/ Playback
    \/ ManualClickButton \/ ManualStickGridClick \/ ManualStickRelease

Spec == Init /\ [][Next]_vars

(***************************************************************************)
(* Playback alone: a connected client, one macro in the library, selected, *)
(* its steps drawn from StepLists.                                         *)
(***************************************************************************)
InitPlay ==
    /\ switch_socket = 1
    /\ switch_connected = TRUE
    /\ connect_btn = "disabled"
    /\ disconnect_btn = "normal"
    /\ conn_status = "Connected to " \o SwitchIp \o ":6000"
    /\ n_sockets = 1
    /\ unclosed = {1}
    /\ auto_timer = FALSE
    /\ \E ss \in StepLists :
         /\ macros = << [name |-> "M", trigger |-> "!m", steps |-> ss] >>
         /\ FormShows("M", "!m", ss)
    /\ steps_ref = <<1>>
    /\ PanelBuilt
    /\ dialog = NoDialog
    /\ exported = <<>>
    /\ selected_index = 0
    /\ curselection = 0
    /\ pc = "idle"
    /\ i = 0
    /\ steps = <<>>
    /\ trace = <<>>
    /\ test_status = ""
    /\ manual_status = ""
    /\ manual_stick = [s \in Sides |-> <<0, 0>>]
    /\ wire = <<>>
    /\ caught = NoExc
    /\ escaped = NoExc
    /\ last_op = "connect:ok"
    /\ cancel_requested = FALSE

NextPlay == TestMacro \/ Playback

SpecPlay == InitPlay /\ [][NextPlay]_vars

\* a connected client with one macro, selected, its steps drawn from lists
ConnectedWith(lists) ==
    /\ switch_socket = 1
    /\ switch_connected = TRUE
    /\ connect_btn = "disabled"
    /\ disconnect_btn = "normal"
    /\ conn_status = "Connected to " \o SwitchIp \o ":6000"
    /\ n_sockets = 1
    /\ unclosed = {1}
    /\ auto_timer = FALSE
    /\ \E ss \in lists :
         /\ macros = << [name |-> "M", trigger |-> "!m", steps |-> ss] >>
         /\ FormShows("M", "!m", ss)
    /\ steps_ref = <<1>>
    /\ PanelBuilt
    /\ dialog = NoDialog
    /\ exported = <<>>
    /\ selected_index = 0
    /\ curselection = 0
    /\ pc = "idle"
    /\ i = 0
    /\ steps = <<>>
    /\ trace = <<>>
    /\ test_status = ""
    /\ manual_status = ""
    /\ manual_stick = [s \in Sides |-> <<0, 0>>]
    /\ wire = <<>>
    /\ caught = NoExc
    /\ escaped = NoExc
    /\ last_op = "connect:ok"
    /\ cancel_requested = FALSE

(***************************************************************************)
(* Playback with a user who asks for it to stop.  The window has no Stop   *)
(* control and _test_macro takes no cancel token: all a user can do while  *)
(* a playback runs is click or close the window, and Tk keeps that event   *)
(* in its queue until the running callback has returned.                   *)
(***************************************************************************)
CancelTokens == {"Button:A", "Hold:A", "Release:A", "Wait:5", "%1,-2", "Junk"}
CancelLists == SeqsUpTo(CancelTokens, MaxSteps)

InitCancel == ConnectedWith(CancelLists)

\* the user asks for the running playback to stop: the event is queued
RequestCancel ==
    /\ pc # "idle"
    /\ ~cancel_requested
    /\ cancel_requested' = TRUE
    /\ UNCHANGED <<connVars, libVars, playVars, manVars, wireVars, obsVars,
                   editVars>>

\* the mainloop is idle again and takes the queued event: nothing runs
DispatchCancel ==
    /\ MainloopIdle
    /\ cancel_requested
    /\ cancel_requested' = FALSE
    /\ UNCHANGED <<connVars, libVars, playVars, manVars, wireVars, obsVars,
                   editVars>>

\* the Test button, behind the events queued before it
TestButton == ~cancel_requested /\ TestMacro

NextCancel == TestButton \/ Playback \/ RequestCancel \/ DispatchCancel

SpecCancel == InitCancel /\ [][NextCancel]_vars

(***************************************************************************)
(* Playback of macros made of one token of each kind the loop tells apart, *)
(* and a Wait whose number cannot be read.                                 *)
(***************************************************************************)
KindTokens == {"Button:A", "Hold:A", "Release:A", "Wait:5", "Wait:x",
               "%1,-2", "&3,4", "Stick:5,6", "Junk"}
KindLists == SeqsUpTo(KindTokens, MaxSteps)

InitKinds == ConnectedWith(KindLists)

SpecKinds == InitKinds /\ [][NextPlay]_vars

(***************************************************************************)
(* Playback of hand-edited steps.  _edit_step and _import_macros take any  *)
(* text for a step: stick positions beyond the stick's range and button    *)
(* names the console does not have reach _test_macro as they were typed.   *)
(***************************************************************************)
EditedTokens == {"%40000,0", "&0,-32768", "Stick:32768,1", "%32767,-32767",
                 "Button:Q", "Hold:Q", "Release:Q", "Button:a",
                 "Wait:5", "Junk"}
EditedLists == SeqsUpTo(EditedTokens, MaxSteps)

InitEdited == ConnectedWith(EditedLists)

SpecEdited == InitEdited /\ [][NextPlay]_vars

(***************************************************************************)
(* The two stick pickers, with pointer positions on and beyond the canvas: *)
(* a connected client, the picker of the step editor and the pickers of    *)
(* the Manual tab.                                                         *)
(***************************************************************************)
InitPicker == ConnectedWith({<<"Button:A">>})

\* a click or drag that ends anywhere on or around a manual stick canvas
ManualStickGridClickAnywhere == ManualStickGridClickAt(WidePointerEvents)

SpecPicker ==
    InitPicker /\ [][ \/ UpdateStepTypePanel \/ SelectStickSide \/ OnStickGridClick
                      \/ ManualStickGridClickAnywhere \/ ManualStickRelease ]_vars

(***************************************************************************)
(* Reading a playback's trace.                                             *)
(***************************************************************************)
Cmds(w) == [k \in 1..Len(w) |-> w[k].cmd]

IsSend(e) == e.ev = "send"
SentIn(tr) == LET sends == SelectSeq(tr, IsSend)
              IN  [k \in 1..Len(sends) |-> sends[k].cmd]

StepEvents == {j \in 1..Len(trace) : trace[j].ev = "step"}
\* the loop considered step k as its current step
Visited(k) == \E j \in StepEvents : trace[j].at = k
PosOf(k) == CHOOSE j \in StepEvents : trace[j].at = k
LaterSteps(k) == {j \in StepEvents : j > PosOf(k)}
FirstOf(S) == CHOOSE j \in S : \A m \in S : j <= m
\* what the loop did for step k: the sends and sleeps up to the next step
Block(k) ==
    SubSeq(trace, PosOf(k) + 1,
           IF LaterSteps(k) = {} THEN Len(trace) ELSE FirstOf(LaterSteps(k)) - 1)
\* the step considered after step k, NoIndex while there is none
NextConsidered(k) ==
    IF LaterSteps(k) = {} THEN NoIndex ELSE trace[FirstOf(LaterSteps(k))].at

\* step tokens as the specification reads them
IsTap(tok) == StartsWith(tok, "Button:")
TapButton(tok) == Upper(Slice(tok, 7))
IsWaitPrefixed(tok) == StartsWith(tok, "Wait:")
IsWait(tok) ==
    /\ IsWaitPrefixed(tok)
    /\ ParseInt(Slice(tok, 5)).ok
    /\ ParseInt(Slice(tok, 5)).val >= 0
WaitMs(tok) == ParseInt(Slice(tok, 5)).val

\* a send of the running playback failed: sendall raised
SendFailed == last_op = "test_macro" /\ pc = "idle" /\ caught.type = "OSError"

(***************************************************************************)
(* C1  Coalescing.  Whenever playback considers a tap Button:b at index k  *)
(* and step k+1 is Wait:ms, what it does for step k is: send `press b`,    *)
(* sleep ms, send `release b` -- a part of that only while the pair is in  *)
(* progress or after a send failed -- and it goes on at k+2: step k+1 is   *)
(* never considered, so there is no `click b` and no second delay.  What   *)
(* is on the wire is what the trace says was sent.                         *)
(***************************************************************************)
CoalescedAt(k) ==
    /\ k + 1 < Len(steps)
    /\ Visited(k)
    /\ IsTap(steps[k + 1])
    /\ IsWait(steps[k + 2])

CoalescedExpected(k) ==
    << EvSend(k, "press " \o TapButton(steps[k + 1])),
       EvSleep(k, WaitMs(steps[k + 2])),
       EvSend(k, "release " \o TapButton(steps[k + 1])) >>

C1_Coalescing ==
    /\ (last_op = "test_macro" => Cmds(wire) = SentIn(trace))
    /\ \A k \in 0..(Len(steps) - 1) :
         CoalescedAt(k) =>
            /\ IsPrefix(Block(k), CoalescedExpected(k))
            /\ ~Visited(k + 1)
            /\ (i > k => /\ Block(k) = CoalescedExpected(k)
                         /\ i >= k + 2
                         /\ NextConsidered(k) \in {NoIndex, k + 2})
            /\ (i = k /\ pc = "loop" => Block(k) = <<>>)
            /\ (i = k /\ pc = "idle" => SendFailed)

C1_Witness ==
    \E k \in 0..(Len(steps) - 1) :
        /\ CoalescedAt(k)
        /\ i > k
        /\ NextConsidered(k) = k + 2
        /\ Cmds(wire) # <<>>

(***************************************************************************)
(* C2  Non-coalesced tap.  Whenever playback considers a tap Button:b at   *)
(* index k that is not followed by a Wait step (the last step included),   *)
(* what it does for step k is: send `click b` once, then sleep 100 ms,     *)
(* and the step considered next is k+1.                                    *)
(***************************************************************************)
PlainTapAt(k) ==
    /\ k < Len(steps)
    /\ Visited(k)
    /\ IsTap(steps[k + 1])
    /\ ~(k + 1 < Len(steps) /\ IsWaitPrefixed(steps[k + 2]))

PlainTapExpected(k) ==
    << EvSend(k, "click " \o TapButton(steps[k + 1])), EvSleep(k, 100) >>

C2_PlainTap ==
    \A k \in 0..(Len(steps) - 1) :
        PlainTapAt(k) =>
            /\ IsPrefix(Block(k), PlainTapExpected(k))
            /\ (i > k => /\ Block(k) = PlainTapExpected(k)
                         /\ NextConsidered(k) \in {NoIndex, k + 1}
                         /\ (NextConsidered(k) = NoIndex /\ pc = "loop" => i = k + 1))
            /\ (i = k /\ pc = "loop" => Block(k) = <<>>)
            /\ (i = k /\ pc = "idle" => SendFailed)

C2_Witness ==
    /\ Len(steps) = 2
    /\ PlainTapAt(0) /\ PlainTapAt(1)
    /\ pc = "idle" /\ test_status = "Macro sent!"
    /\ Len(wire) = 2

(***************************************************************************)
(* C3  Halt on failure.  While a playback runs, the wire only grows, and   *)
(* what is on it is an initial part of what the playback writes when no    *)
(* send fails; the step in which a send fails writes nothing and ends the  *)
(* playback, so no command follows, none is sent again, none is undone.    *)
(***************************************************************************)
C3_HaltOnFailure ==
    [][ pc # "idle" =>
          /\ IsPrefix(wire, wire')
          /\ IsPrefix(Cmds(wire'), PlayCommands(steps, 0))
          /\ (caught' # NoExc => pc' = "idle" /\ wire' = wire /\ i' = i) ]_vars

C3_Witness ==
    /\ SendFailed
    /\ Len(wire) >= 1
    /\ Len(wire) < Len(PlayCommands(steps, 0))

(***************************************************************************)
(* C4  Failure report.  When a send fails during playback, the status      *)
(* reported names the failing step (its place in the macro, counted from   *)
(* 1 as in the specification's example, or from 0) and the cause.          *)
(***************************************************************************)
C4_FailureReport ==
    SendFailed =>
        /\ Contains(test_status, caught.msg)
        /\ \/ Contains(test_status, IntToStr(i + 1))
           \/ Contains(test_status, IntToStr(i))

\* what the code does report: the cause alone
C4_CauseOnly == SendFailed => test_status = "Error: " \o caught.msg

(***************************************************************************)
(* C5  A write failure forces DISCONNECTED.  After a send of a playback    *)
(* or of a manual command failed with a transport error, the client is     *)
(* DISCONNECTED: the flag is off and no socket is held.                    *)
(***************************************************************************)
SendingOps == {"test_macro", "manual_click", "manual_stick", "manual_release"}

WriteFailed == last_op \in SendingOps /\ pc = "idle" /\ caught.type = "OSError"

C5_WriteFailureDisconnects ==
    WriteFailed => ~switch_connected /\ switch_socket = None

(***************************************************************************)
(* C6  Refusal while DISCONNECTED.  A playback, manual click or manual     *)
(* stick command started while the client is DISCONNECTED writes nothing,  *)
(* reports "Not connected to Switch!" in its status line, raises nothing,  *)
(* starts no playback and leaves the connection as it was; a direct send   *)
(* in such a state can only raise the not-connected error.                 *)
(***************************************************************************)
C6_RefusedWhenDisconnected ==
    [][ (pc = "idle" /\ ~switch_connected /\ last_op' \in SendingOps) =>
          /\ wire' = wire
          /\ pc' = "idle"
          /\ escaped' = NoExc
          /\ caught' = NoExc
          /\ (last_op' = "test_macro" => test_status' = "Not connected to Switch!")
          /\ (last_op' # "test_macro" => manual_status' = "Not connected to Switch!")
          /\ UNCHANGED <<switch_socket, switch_connected, connect_btn,
                         disconnect_btn, conn_status, n_sockets, unclosed>>
          /\ SendResults(switch_socket) = {Exc("RuntimeError", "Not connected")} ]_vars

C6_Witness ==
    /\ ~switch_connected
    /\ n_sockets > 0
    /\ wire # <<>>
    /\ last_op = "manual_stick"
    /\ manual_status = "Not connected to Switch!"
    /\ test_status = "Not connected to Switch!"

(***************************************************************************)
(* C7  Connection state machine.  The connected flag goes from off to on   *)
(* only in a connect that succeeded, and from on to off only in a          *)
(* disconnect or in a callback that met a transport error (a socket-layer  *)
(* failure of connect or of a write); no other step changes it.            *)
(***************************************************************************)
C7_StateMachine ==
    [][ switch_connected' # switch_connected =>
          \/ /\ ~switch_connected /\ switch_connected'
             /\ last_op' = "connect:ok"
          \/ /\ switch_connected /\ ~switch_connected'
             /\ \/ last_op' = "disconnect"
                \/ caught'.type = "OSError" ]_vars

\* a connect attempt made while CONNECTED failed: the Disconnect button is
\* still enabled although the client is DISCONNECTED
C7_Witness ==
    /\ last_op = "connect:failed"
    /\ ~switch_connected
    /\ disconnect_btn = "normal"

(***************************************************************************)
(* C8  connect has exactly two outcomes.  After a connect, either it       *)
(* succeeded and the client is CONNECTED holding the socket just created,  *)
(* or it failed and the client is DISCONNECTED with no socket and the      *)
(* error is in the status line; nothing is raised out of connect.          *)
(***************************************************************************)
ConnectOps == {"connect:ok", "connect:failed", "connect:invalid_port"}

C8_ConnectTwoOutcomes ==
    last_op \in ConnectOps =>
        /\ escaped = NoExc
        /\ \/ /\ last_op = "connect:ok"
              /\ switch_connected /\ switch_socket = n_sockets
              /\ StartsWith(conn_status, "Connected to ")
           \/ /\ last_op # "connect:ok"
              /\ ~switch_connected /\ switch_socket = None
              /\ conn_status \in {"Invalid port"}
                     \cup {"Failed: " \o c : c \in ConnectCauses}

(***************************************************************************)
(* C9  disconnect is idempotent.  A disconnect, from either state and also *)
(* when close() fails, raises nothing and leaves the client DISCONNECTED   *)
(* with no socket; running it again on the state it left changes nothing.  *)
(***************************************************************************)
C9_DisconnectIdempotent ==
    [][ last_op' = "disconnect" =>
          /\ ~switch_connected' /\ switch_socket' = None
          /\ escaped' = NoExc
          /\ \A closeExc \in CloseOutcomes :
                DisconnectEffect(ConnFields', closeExc) = ConnFields' ]_vars

\* a disconnect in which close() raised
C9_Witness ==
    /\ last_op = "disconnect"
    /\ caught.type = "OSError"
    /\ ~switch_connected /\ switch_socket = None

(***************************************************************************)
(* C10  One playback at a time.  While a playback is in progress, every    *)
(* line put on the wire is its own and no other callback starts: the       *)
(* trace of the playback is only extended, never restarted, and a manual   *)
(* command or another playback runs only once it has finished.             *)
(***************************************************************************)
C10_NoInterleaving ==
    [][ pc # "idle" =>
          /\ \A k \in 1..Len(wire') : wire'[k].by = "test_macro"
          /\ IsPrefix(wire, wire')
          /\ IsPrefix(trace, trace')
          /\ last_op' = "test_macro"
          /\ UNCHANGED <<manual_status, manual_stick, steps>> ]_vars

\* in the middle of a playback that follows a manual command
C10_Witness ==
    /\ pc = "tap_release"
    /\ Len(wire) = 1
    /\ manual_status = "Clicked: DUP"

(***************************************************************************)
(* C11  Cooperative cancellation.  Once a stop has been requested while a  *)
(* playback runs, the playback sends no further command, undoes nothing    *)
(* that is on the wire, and when it ends it reports a cancelled outcome:   *)
(* neither the success text nor an error text.                             *)
(***************************************************************************)
C11_Cancellation ==
    [][ (cancel_requested /\ pc # "idle") =>
          /\ wire' = wire
          /\ (pc' = "idle" => /\ test_status' # "Macro sent!"
                              /\ ~StartsWith(test_status', "Error: ")) ]_vars

\* what the code does: a queued request changes nothing in the playback
C11_RequestIgnored ==
    [][ (cancel_requested /\ pc # "idle" /\ pc' = "idle" /\ caught' = NoExc) =>
          test_status' = "Macro sent!" /\ i >= Len(steps) ]_vars

(***************************************************************************)
(* What the specification expects of each kind of step.                    *)
(***************************************************************************)
IsHold(tok) == StartsWith(tok, "Hold:")
HoldButton(tok) == Upper(Slice(tok, 5))
IsRelease(tok) == StartsWith(tok, "Release:")
ReleaseButton(tok) == Upper(Slice(tok, 8))

IsLeftStick(tok) == StartsWith(tok, "%")
IsRightStick(tok) == StartsWith(tok, "&")
IsLegacyStick(tok) == StartsWith(tok, "Stick:")
IsStick(tok) == IsLeftStick(tok) \/ IsRightStick(tok) \/ IsLegacyStick(tok)
StickFields(tok) == Split(Slice(tok, IF IsLegacyStick(tok) THEN 6 ELSE 1), ",")
\* a stick token with two integer fields
IsStickMove(tok) ==
    /\ IsStick(tok)
    /\ Len(StickFields(tok)) = 2
    /\ ParseInt(StickFields(tok)[1]).ok
    /\ ParseInt(StickFields(tok)[2]).ok
StickX(tok) == ParseInt(StickFields(tok)[1]).val
StickY(tok) == ParseInt(StickFields(tok)[2]).val
StickCommand(tok) ==
    "setStick " \o (IF IsRightStick(tok) THEN "RIGHT" ELSE "LEFT")
      \o " " \o IntToStr(StickX(tok)) \o " " \o IntToStr(StickY(tok))

HoldExpected(k) == << EvSend(k, "press " \o HoldButton(steps[k + 1])) >>
ReleaseExpected(k) == << EvSend(k, "release " \o ReleaseButton(steps[k + 1])) >>
StickExpected(k) == << EvSend(k, StickCommand(steps[k + 1])), EvSleep(k, 100) >>
WaitExpected(k) == << EvSleep(k, WaitMs(steps[k + 1])) >>

FollowedByWait(k) == k + 1 < Len(steps) /\ IsWaitPrefixed(steps[k + 2])

\* everything the playback is to do for step k when nothing fails
ExpectedBlock(k) ==
    LET tok == steps[k + 1]
    IN  IF IsTap(tok)
        THEN IF FollowedByWait(k) THEN CoalescedExpected(k) ELSE PlainTapExpected(k)
        ELSE IF IsHold(tok) THEN HoldExpected(k)
        ELSE IF IsRelease(tok) THEN ReleaseExpected(k)
        ELSE IF IsStickMove(tok) THEN StickExpected(k)
        ELSE IF IsWait(tok) THEN WaitExpected(k)
        ELSE <<>>

\* step k is the Wait taken into the tap right before it
Absorbed(k) == k >= 1 /\ Visited(k - 1) /\ IsTap(steps[k]) /\ IsWaitPrefixed(steps[k + 1])
Processed(k) == Visited(k) \/ Absorbed(k)

\* the step the event at place j of the trace belongs to
OwnerOf(j) ==
    LET before == {m \in StepEvents : m <= j}
    IN  IF before = {} THEN NoIndex
        ELSE trace[CHOOSE m \in before : \A n \in before : n <= m].at

(***************************************************************************)
(* C12  Strictly sequential walk.  The steps are considered left to        *)
(* right, none twice; every step before the cursor was processed exactly   *)
(* once, as the current step or as the Wait taken into the tap right       *)
(* before it, and no step after the cursor has been touched; every send    *)
(* and sleep belongs to the step considered last, so the commands are on   *)
(* the wire in step order; and when the next step is considered, all that  *)
(* the step before it calls for (its send and its delay) has been done.    *)
(***************************************************************************)
C12_SequentialWalk ==
    /\ \A a, b \in StepEvents : a < b => trace[a].at < trace[b].at
    /\ \A j \in 1..Len(trace) : OwnerOf(j) = trace[j].at
    /\ (last_op = "test_macro" => Cmds(wire) = SentIn(trace))
    /\ \A k \in 0..(Len(steps) - 1) :
         /\ (k < i => Processed(k) /\ ~(Visited(k) /\ Absorbed(k)))
         /\ (k > i => ~Visited(k))
         /\ (k = i /\ pc = "loop" => ~Processed(k))
         /\ (Visited(k) /\ LaterSteps(k) # {} =>
               /\ Block(k) = ExpectedBlock(k)
               /\ NextConsidered(k) =
                    IF IsTap(steps[k + 1]) /\ FollowedByWait(k) THEN k + 2 ELSE k + 1)

\* a finished playback with a Wait taken into a tap and a Wait of its own
C12_Witness ==
    /\ pc = "idle" /\ test_status = "Macro sent!"
    /\ Len(steps) = 3 /\ i = 3
    /\ Absorbed(1) /\ Visited(2) /\ IsWait(steps[3])

(***************************************************************************)
(* C13  Success signal.  A playback reports nothing while it runs and      *)
(* reports once, as it ends.  If nothing failed, the report is the success *)
(* text and every step of the macro has been processed; a playback ends    *)
(* otherwise only because a send failed or because the step at the cursor  *)
(* carries a number that cannot be read or waited for, and then the        *)
(* report is never the success text.                                       *)
(***************************************************************************)
\* the step at the cursor carries a numeric field that is no usable integer
CursorMalformed ==
    /\ i < Len(steps)
    /\ LET tok == steps[i + 1]
       IN  \/ IsTap(tok) /\ FollowedByWait(i) /\ ~IsWait(steps[i + 2])
           \/ IsWaitPrefixed(tok) /\ ~IsWait(tok)
           \/ IsStick(tok) /\ Len(StickFields(tok)) = 2 /\ ~IsStickMove(tok)

C13_SuccessSignal ==
    [][ /\ (pc # "idle" /\ pc' # "idle" => test_status' = test_status)
        /\ (pc # "idle" /\ pc' = "idle" =>
              IF caught' = NoExc
              THEN /\ test_status' = "Macro sent!"
                   /\ pc = "loop" /\ i = Len(steps)
                   /\ \A k \in 0..(Len(steps) - 1) : Processed(k)
              ELSE /\ test_status' # "Macro sent!"
                   /\ \/ caught'.type = "OSError"
                      \/ caught'.type = "ValueError" /\ CursorMalformed) ]_vars

\* a playback of three steps, each writing its command, ended with success
C13_Witness ==
    /\ pc = "idle" /\ caught = NoExc
    /\ test_status = "Macro sent!"
    /\ Len(steps) = 3 /\ i = 3
    /\ Len(wire) = 3
    /\ \A k \in 0..2 : Visited(k)

(***************************************************************************)
(* C14  Hold never auto-releases.  What playback does for a step Hold:b    *)
(* is one send of `press b`, with no delay after it, and the step after it *)
(* is considered next even when it is a Wait.  Every `release b` of a      *)
(* playback is the send of a Release:b step or the closing send of a tap   *)
(* taken together with its Wait.  So after a playback that succeeded, a    *)
(* button held by a step that no later tap or Release names is pressed.    *)
(***************************************************************************)
\* the buttons the remote side holds down after the first n commands
RECURSIVE HeldAfter(_, _)
HeldAfter(cmds, n) ==
    IF n = 0 THEN {}
    ELSE LET c == cmds[n]
             before == HeldAfter(cmds, n - 1)
         IN  IF StartsWith(c, "press ") THEN before \cup {Slice(c, 6)}
             ELSE IF StartsWith(c, "release ") THEN before \ {Slice(c, 8)}
             ELSE IF StartsWith(c, "click ") THEN before \ {Slice(c, 6)}
             ELSE before

PlaybackSucceeded ==
    /\ last_op = "test_macro" /\ pc = "idle" /\ caught = NoExc
    /\ test_status = "Macro sent!" /\ steps # <<>> /\ i = Len(steps)

\* a step after k is a tap or a Release of button b
NamedLater(k, b) ==
    \E m \in (k + 1)..(Len(steps) - 1) :
        \/ IsTap(steps[m + 1]) /\ TapButton(steps[m + 1]) = b
        \/ IsRelease(steps[m + 1]) /\ ReleaseButton(steps[m + 1]) = b

\* the send at place j of the trace is the one a Release step calls for, or
\* the closing send of a tap taken together with its Wait
ReleaseAccounted(j) ==
    LET k == trace[j].at
        tok == steps[k + 1]
    IN  \/ IsRelease(tok) /\ trace[j].cmd = "release " \o ReleaseButton(tok)
        \/ /\ IsTap(tok) /\ FollowedByWait(k)
           /\ trace[j].cmd = "release " \o TapButton(tok)
           /\ j = PosOf(k) + 3

C14_HoldNoAutoRelease ==
    /\ \A k \in 0..(Len(steps) - 1) :
         (Visited(k) /\ IsHold(steps[k + 1])) =>
            /\ IsPrefix(Block(k), HoldExpected(k))
            /\ (i > k => /\ Block(k) = HoldExpected(k)
                         /\ NextConsidered(k) \in {NoIndex, k + 1})
            /\ (i = k => pc \in {"loop", "idle"})
            /\ (i = k /\ pc = "loop" => Block(k) = <<>>)
            /\ (i = k /\ pc = "idle" => SendFailed)
            /\ (PlaybackSucceeded /\ ~NamedLater(k, HoldButton(steps[k + 1]))
                  => HoldButton(steps[k + 1]) \in HeldAfter(Cmds(wire), Len(wire)))
    /\ \A j \in 1..Len(trace) :
         (IsSend(trace[j]) /\ StartsWith(trace[j].cmd, "release "))
            => ReleaseAccounted(j)

\* Hold:b then a Wait, played to the end: the Wait was a step of its own
\* and b is still pressed
C14_Witness ==
    /\ PlaybackSucceeded
    /\ Len(steps) >= 2
    /\ IsHold(steps[1]) /\ IsWait(steps[2])
    /\ Visited(1)
    /\ HoldButton(steps[1]) \in HeldAfter(Cmds(wire), Len(wire))

(***************************************************************************)
(* C15  Release.  What playback does for a step Release:b is one send of   *)
(* `release b`, with no delay after it, and the step after it is           *)
(* considered next; this is so whether or not the macro pressed b before.  *)
(***************************************************************************)
C15_Release ==
    \A k \in 0..(Len(steps) - 1) :
        (Visited(k) /\ IsRelease(steps[k + 1])) =>
            /\ IsPrefix(Block(k), ReleaseExpected(k))
            /\ (i > k => /\ Block(k) = ReleaseExpected(k)
                         /\ NextConsidered(k) \in {NoIndex, k + 1})
            /\ (i = k => pc \in {"loop", "idle"})
            /\ (i = k /\ pc = "loop" => Block(k) = <<>>)
            /\ (i = k /\ pc = "idle" => SendFailed)

\* a Release as the first step, nothing pressed before it, and one after a Hold
C15_Witness ==
    /\ Len(steps) = 3 /\ i = 3
    /\ IsRelease(steps[1]) /\ IsHold(steps[2]) /\ IsRelease(steps[3])
    /\ Cmds(wire) = <<"release A", "press A", "release A">>

(***************************************************************************)
(* C16  Stick steps.  For a step %x,y playback sends `setStick LEFT x y`,  *)
(* for &x,y `setStick RIGHT x y`, for the legacy Stick:x,y `setStick LEFT  *)
(* x y`; each send is followed by a sleep of 100 ms and then the next step *)
(* is considered.  Every setStick of a playback is that one send of a      *)
(* stick step: playback adds no move of its own, none back to the centre.  *)
(***************************************************************************)
C16_StickSteps ==
    /\ \A k \in 0..(Len(steps) - 1) :
         (Visited(k) /\ IsStickMove(steps[k + 1])) =>
            /\ IsPrefix(Block(k), StickExpected(k))
            /\ (i > k => /\ Block(k) = StickExpected(k)
                         /\ NextConsidered(k) \in {NoIndex, k + 1})
            /\ (i = k /\ pc = "loop" => Block(k) = <<>>)
            /\ (i = k /\ pc = "idle" => SendFailed)
    /\ \A j \in 1..Len(trace) :
         (IsSend(trace[j]) /\ StartsWith(trace[j].cmd, "setStick ")) =>
            /\ IsStickMove(steps[trace[j].at + 1])
            /\ trace[j].cmd = StickCommand(steps[trace[j].at + 1])
            /\ j = PosOf(trace[j].at) + 1

\* a left, a right and a legacy stick step played to the end
C16_Witness ==
    /\ PlaybackSucceeded
    /\ Len(steps) = 3
    /\ IsLeftStick(steps[1]) /\ IsRightStick(steps[2]) /\ IsLegacyStick(steps[3])
    /\ Cmds(wire) = <<"setStick LEFT 1 -2", "setStick RIGHT 3 4", "setStick LEFT 5 6">>
    /\ Len(trace) = 9

(***************************************************************************)
(* C17  A Wait of its own.  When the step playback considers is a Wait     *)
(* (one that no tap before it took in), the wire and the connection are    *)
(* after it what they were before it; for Wait:ms with ms a number that    *)
(* can be waited for, all that happens is one sleep of ms milliseconds,    *)
(* and the cursor moves to the next step.                                  *)
(***************************************************************************)
C17_WaitOnlyBlocks ==
    [][ (pc = "loop" /\ i < Len(steps) /\ IsWaitPrefixed(steps[i + 1])) =>
          /\ wire' = wire
          /\ UNCHANGED <<switch_socket, switch_connected, conn_status,
                         connect_btn, disconnect_btn, n_sockets, unclosed>>
          /\ (IsWait(steps[i + 1]) =>
                /\ trace' = trace \o << EvStep(i), EvSleep(i, WaitMs(steps[i + 1])) >>
                /\ i' = i + 1
                /\ pc' = "loop"
                /\ UNCHANGED <<test_status, caught, escaped>>) ]_vars

\* in the middle of a playback: a Hold, then a Wait of its own, done
C17_Witness ==
    /\ pc = "loop" /\ i = 2 /\ Len(steps) = 3
    /\ IsHold(steps[1]) /\ IsWait(steps[2])
    /\ Len(wire) = 1
    /\ trace[Len(trace)] = EvSleep(1, 5)

(***************************************************************************)
(* C18  Malformed tokens are never silently dropped.  A token is malformed *)
(* when its prefix is none of the known ones, when it is a stick token     *)
(* without exactly two comma-separated fields, or when a numeric field of  *)
(* it is no integer.  A playback of a macro with such a token never ends   *)
(* with the success text.                                                  *)
(***************************************************************************)
KnownPrefix(tok) ==
    IsTap(tok) \/ IsHold(tok) \/ IsRelease(tok) \/ IsStick(tok) \/ IsWaitPrefixed(tok)

Malformed(tok) ==
    \/ ~KnownPrefix(tok)
    \/ IsStick(tok) /\ ~IsStickMove(tok)
    \/ IsWaitPrefixed(tok) /\ ~ParseInt(Slice(tok, 5)).ok

C18_MalformedSurfaced ==
    PlaybackSucceeded => \A k \in 1..Len(steps) : ~Malformed(steps[k])

\* what the code does surface: a numeric field that is no integer, in a Wait
\* or in a stick token of two fields
UnreadableNumber(tok) ==
    \/ IsWaitPrefixed(tok) /\ ~ParseInt(Slice(tok, 5)).ok
    \/ IsStick(tok) /\ Len(StickFields(tok)) = 2 /\ ~IsStickMove(tok)

C18_NumbersSurfaced ==
    PlaybackSucceeded => \A k \in 1..Len(steps) : ~UnreadableNumber(steps[k])

(***************************************************************************)
(* C19  Out-of-range stick text is rejected.  No setStick command on the   *)
(* wire has an x or y outside [-32767, 32767], and a playback of a macro   *)
(* with a stick token that has such a coordinate does not end with the     *)
(* success text.                                                           *)
(***************************************************************************)
InStickRange(v) == 0 - StickMax <= v /\ v <= StickMax

\* x and y of a `setStick SIDE x y` line
WireX(cmd) == ParseInt(Split(cmd, " ")[3]).val
WireY(cmd) == ParseInt(Split(cmd, " ")[4]).val

OutOfRange(tok) ==
    IsStickMove(tok) /\ ~(InStickRange(StickX(tok)) /\ InStickRange(StickY(tok)))

C19_StickRangeRejected ==
    /\ \A j \in 1..Len(wire) :
         StartsWith(wire[j].cmd, "setStick ") =>
            InStickRange(WireX(wire[j].cmd)) /\ InStickRange(WireY(wire[j].cmd))
    /\ (PlaybackSucceeded => \A k \in 1..Len(steps) : ~OutOfRange(steps[k]))

\* what the code does: the numbers of the token go to the wire as they are
C19_SentAsWritten ==
    \A j \in 1..Len(trace) :
        (IsSend(trace[j]) /\ StartsWith(trace[j].cmd, "setStick ")) =>
            /\ WireX(trace[j].cmd) = StickX(steps[trace[j].at + 1])
            /\ WireY(trace[j].cmd) = StickY(steps[trace[j].at + 1])

(***************************************************************************)
(* C20  Button names are those of the enumeration.  Every click, press     *)
(* and release command on the wire names one of the 22 buttons, and a      *)
(* playback of a macro with a tap, Hold or Release of another name does    *)
(* not end with the success text.                                          *)
(***************************************************************************)
ButtonNames == BUTTONS \cup DPAD

\* the button a click/press/release line names, "" for other lines
WireButton(cmd) ==
    IF StartsWith(cmd, "click ") THEN Slice(cmd, 6)
    ELSE IF StartsWith(cmd, "press ") THEN Slice(cmd, 6)
    ELSE IF StartsWith(cmd, "release ") THEN Slice(cmd, 8)
    ELSE ""

UnknownButton(tok) ==
    \/ IsTap(tok) /\ TapButton(tok) \notin ButtonNames
    \/ IsHold(tok) /\ HoldButton(tok) \notin ButtonNames
    \/ IsRelease(tok) /\ ReleaseButton(tok) \notin ButtonNames

C20_ButtonNamesRestricted ==
    /\ \A j \in 1..Len(wire) :
         WireButton(wire[j].cmd) # "" => WireButton(wire[j].cmd) \in ButtonNames
    /\ (PlaybackSucceeded => \A k \in 1..Len(steps) : ~UnknownButton(steps[k]))

\* what the code does: the name goes to the wire in upper case, whatever it is
C20_SentUpperCased ==
    \A j \in 1..Len(trace) :
        (IsSend(trace[j]) /\ WireButton(trace[j].cmd) # "") =>
            LET tok == steps[trace[j].at + 1]
            IN  WireButton(trace[j].cmd) =
                  Upper(Slice(tok, IF IsTap(tok) THEN 7 ELSE IF IsHold(tok) THEN 5 ELSE 8))

(***************************************************************************)
(* C21: round trip of a step through its token.                            *)
(***************************************************************************)
\* the step the user has set up in the step-type panel
PanelStep ==
    IF step_type_var = "Button" THEN [kind |-> "tap", button |-> button_var]
    ELSE IF step_type_var = "Hold" THEN [kind |-> "hold", button |-> hold_var]
    ELSE IF step_type_var = "Release"
    THEN [kind |-> "release", button |-> release_var]
    ELSE IF step_type_var = "Stick Move"
    THEN [kind |-> "stick", side |-> stick_side_var, x |-> stick_x, y |-> stick_y]
    ELSE [kind |-> "wait", ms |-> ParseInt(wait_var).val]

\* the panel holds a valid step: a button of the list, a stick position in
\* range, a wait of 1 ms or more
PanelValid ==
    /\ step_type_var = "Button" => button_var \in BUTTONS
    /\ step_type_var = "Hold" => hold_var \in BUTTONS
    /\ step_type_var = "Release" => release_var \in BUTTONS
    /\ step_type_var = "Stick Move" => InStickRange(stick_x) /\ InStickRange(stick_y)
    /\ step_type_var = "Wait" => ParseInt(wait_var).ok /\ ParseInt(wait_var).val >= 1

\* the token the specification gives for a step
TokenOf(st) ==
    IF st.kind = "tap" THEN "Button:" \o st.button
    ELSE IF st.kind = "hold" THEN "Hold:" \o st.button
    ELSE IF st.kind = "release" THEN "Release:" \o st.button
    ELSE IF st.kind = "stick"
    THEN (IF st.side = "LEFT" THEN "%" ELSE "&")
         \o IntToStr(st.x) \o "," \o IntToStr(st.y)
    ELSE "Wait:" \o IntToStr(st.ms)

\* C21: Add Step on a valid step of the panel puts one new row into the
\* steps list, the row is the token of that step, and playback reads in it
\* the same step again: kind, button, stick side, coordinates, duration.
\* A panel that holds no valid step adds no row.
C21_RoundTrip ==
    [][ last_op' \in {"add_step", "add_step:refused"} =>
          IF PanelValid
          THEN /\ last_op' = "add_step"
               /\ \E idx \in 0..Len(steps_listbox) :
                    /\ steps_listbox' =
                         InsertAt(steps_listbox, idx, steps_listbox'[idx + 1])
                    /\ steps_listbox'[idx + 1] = TokenOf(PanelStep)
                    /\ DecodeStep(steps_listbox'[idx + 1]) = PanelStep
          ELSE /\ last_op' = "add_step:refused"
               /\ steps_listbox' = steps_listbox ]_vars

\* rows added for a right-stick position beyond the canvas, and for a wait
C21_Witness ==
    /\ last_op = "add_step"
    /\ Len(steps_listbox) >= 2
    /\ \/ /\ step_type_var = "Stick Move"
          /\ DecodeStep(steps_listbox[1]) =
               [kind |-> "stick", side |-> "RIGHT", x |-> StickMax, y |-> 0 - StickMax]
       \/ /\ step_type_var = "Wait"
          /\ DecodeStep(steps_listbox[1]) = [kind |-> "wait", ms |-> 7]

(***************************************************************************)
(* C22: clamping of the stick pickers.                                     *)
(***************************************************************************)
\* the stick token Add Step would build from the picker of the step editor
PickerToken == DecodeStep(StepFromPanel.step)

\* C22: whatever pointer position a stick picker is given, on the canvas
\* or beyond it, the stick position it keeps has x and y in
\* [-32767, 32767]; so has the stick token built from the picker of the
\* step editor, and so has every setStick line the manual pickers write.
C22_Clamped ==
    /\ InStickRange(stick_x) /\ InStickRange(stick_y)
    /\ (step_type_var = "Stick Move" =>
          /\ PickerToken.kind = "stick"
          /\ InStickRange(PickerToken.x) /\ InStickRange(PickerToken.y))
    /\ \A s \in Sides :
         InStickRange(manual_stick[s][1]) /\ InStickRange(manual_stick[s][2])
    /\ \A j \in 1..Len(wire) :
         wire[j].by \in {"manual_stick", "manual_release"} =>
            /\ StartsWith(wire[j].cmd, "setStick ")
            /\ InStickRange(WireX(wire[j].cmd))
            /\ InStickRange(WireY(wire[j].cmd))

\* both pickers were given a position beyond the canvas, which was clamped
C22_Witness ==
    /\ step_type_var = "Stick Move"
    /\ stick_x = StickMax /\ stick_y = 0 - StickMax
    /\ last_op = "manual_stick"
    /\ wire # <<>>
    /\ WireX(wire[1].cmd) = 0 - StickMax
    /\ WireY(wire[1].cmd) = StickMax

(***************************************************************************)
(* C23: validation on save.                                                *)
(***************************************************************************)
\* a text with nothing in it but blanks
Blank(text) == \A k \in 1..Len(text) : CharAt(text, k) = " "

\* the field the form lacks, in the order name, trigger, steps
MissingField ==
    IF Blank(name_var) THEN "name"
    ELSE IF Blank(trigger_var) THEN "trigger"
    ELSE IF steps_listbox = <<>> THEN "step"
    ELSE ""

\* the step is a click on Save
SaveClicked == last_op' \in {"save", "save:refused"}

\* C23: a click on Save while the name is empty, the trigger is empty or
\* the steps list is empty is refused: an error box names the field that is
\* missing (the first of name, trigger, steps: "Macro name is required.",
\* "Trigger is required.", "At least one step is required."), and the
\* library, the selection and the form stay as they were.  A click on Save
\* with all three present is not refused.
C23_SaveValidation ==
    [][ SaveClicked =>
          IF MissingField # ""
          THEN /\ last_op' = "save:refused"
               /\ dialog'.kind = "error"
               /\ Contains(Upper(dialog'.text), Upper(MissingField))
               /\ UNCHANGED <<macros, steps_ref, selected_index, curselection>>
               /\ UNCHANGED <<name_var, trigger_var, steps_listbox>>
          ELSE /\ last_op' = "save"
               /\ dialog'.kind = "info" ]_vars

\* Save was refused for a macro selected in a library of two, for its steps
C23_Witness ==
    /\ last_op = "save:refused"
    /\ Len(macros) = 2 /\ selected_index = 1
    /\ ~Blank(name_var) /\ ~Blank(trigger_var) /\ steps_listbox = <<>>
    /\ dialog = ShowError("Error", "At least one step is required.")

(***************************************************************************)
(* C24: no structurally invalid macro in the library.                      *)
(***************************************************************************)
\* a macro with a name, a trigger and at least one step
WellFormed(m) ==
    /\ Get(m, "name", "") # ""
    /\ Get(m, "trigger", "") # ""
    /\ Get(m, "steps", <<>>) # <<>>

\* C24: after any sequence of new, save, delete, move up, move down, clone
\* and import, every macro of the library has a non-empty name, a
\* non-empty trigger and a non-empty step list.
C24_LibraryWellFormed == \A k \in 1..Len(macros) : WellFormed(macros[k])

\* what the code does keep: the entry a save writes is well formed
C24_SavedWellFormed ==
    [][ last_op' = "save" => WellFormed(macros'[selected_index' + 1]) ]_vars

(***************************************************************************)
(* C25: trigger and chat_command agree.                                    *)
(***************************************************************************)
\* the record has no trigger, or no chat_command, or the two are equal
AliasAgrees(m) ==
    Has(m, "trigger") /\ Has(m, "chat_command") => m["trigger"] = m["chat_command"]

\* C25: every macro that carries both `trigger` and `chat_command` has the
\* two equal once it is imported, and so has every macro of the library
\* and of an exported file after any sequence of save, clone, import and
\* export.
C25_AliasSynchronised ==
    /\ \A k \in 1..Len(macros) : AliasAgrees(macros[k])
    /\ \A k \in 1..Len(exported) : AliasAgrees(exported[k])

\* what the code does keep: the records of an exported file agree, and so
\* does the entry a save writes
C25_ExportedAndSavedAgree ==
    /\ \A k \in 1..Len(exported) :
         /\ Has(exported[k], "chat_command")
         /\ exported[k]["chat_command"] = Get(exported[k], "trigger", "")
    /\ (last_op = "save" =>
          /\ Has(macros[selected_index + 1], "chat_command")
          /\ AliasAgrees(macros[selected_index + 1]))

(***************************************************************************)
(* C26: clone.                                                             *)
(***************************************************************************)
\* the step is a click on Clone with a macro selected
CloneClicked == last_op' = "clone" /\ selected_index # NoIndex

\* after the step the library is the old one with one entry more, right
\* after the selected one: its name is the selected macro's name with
\* something added, every other field is the selected macro's
ClonedRightAfter ==
    /\ Len(macros') = Len(macros) + 1
    /\ \A k \in 1..(selected_index + 1) : macros'[k] = macros[k]
    /\ \A k \in (selected_index + 2)..Len(macros) : macros'[k + 1] = macros[k]
    /\ LET orig == macros[selected_index + 1]
           clone == macros'[selected_index + 2]
       IN  /\ DOMAIN clone = DOMAIN orig
           /\ Has(orig, "name")
           /\ Len(clone["name"]) > Len(orig["name"])
           /\ StartsWith(clone["name"], orig["name"])
           /\ \A f \in DOMAIN orig \ {"name"} : clone[f] = orig[f]

\* the steps of the clone are a list of their own
StepsNotShared ==
    /\ Len(steps_ref') = Len(steps_ref) + 1
    /\ \A k \in 1..Len(steps_ref') :
         k # selected_index + 2 => steps_ref'[k] # steps_ref'[selected_index + 2]

\* C26: cloning the selected macro inserts directly after it a macro with
\* the original's name plus a suffix, the original's trigger, and steps
\* equal to the original's in a list of its own, so that nothing done
\* later to the steps of the one can change the steps of the other; the
\* original is unchanged.
C26_Clone == [][ CloneClicked => ClonedRightAfter /\ StepsNotShared ]_vars

\* what the code does for a macro that has a name: the clone is inserted
\* right after it, and its steps are the very list of the original
C26_CloneSharesSteps ==
    [][ CloneClicked /\ Has(macros[selected_index + 1], "name") =>
          /\ ClonedRightAfter
          /\ steps_ref'[selected_index + 2] = steps_ref'[selected_index + 1] ]_vars

\* a clone of a macro without a name is not made: KeyError leaves the
\* callback and the library is as it was
C26_NamelessNotCloned ==
    [][ CloneClicked /\ ~Has(macros[selected_index + 1], "name") =>
          /\ macros' = macros
          /\ escaped'.type = "KeyError" ]_vars

(***************************************************************************)
(* C27: the previews.                                                      *)
(***************************************************************************)
\* the lines of the interpreted preview
InterpLines == IF interp_preview = "" THEN <<>> ELSE Split(interp_preview, "\n")

\* the line the specification gives for a step that is no stick step
PlainLine(tok) ==
    IF IsTap(tok) THEN "Press " \o Slice(tok, 7)
    ELSE IF IsHold(tok) THEN "Hold " \o Slice(tok, 5)
    ELSE IF IsRelease(tok) THEN "Release " \o Slice(tok, 8)
    ELSE IF IsWaitPrefixed(tok) THEN "Wait " \o Slice(tok, 5) \o " ms"
    ELSE tok

\* a line that describes a stick step in words: it is not the token itself
\* and it gives the two coordinates
DescribesStick(line, tok) ==
    /\ line # tok
    /\ Contains(line, IntToStr(StickX(tok)))
    /\ Contains(line, IntToStr(StickY(tok)))

\* the raw preview is the rows joined by commas, and the interpreted
\* preview has one line per row, in the order of the rows
PreviewShape ==
    /\ preview = Join(steps_listbox, ",")
    /\ Len(InterpLines) = Len(steps_listbox)

\* C27: the raw preview is the step tokens joined by `,` in list order; the
\* interpreted preview has one line per step in the same order: `Press A`,
\* `Hold A`, `Release A`, `Wait 250 ms`, and for a stick step, whichever of
\* `%`, `&` and `Stick:` encodes it, a description of it in words.
C27_Preview ==
    /\ PreviewShape
    /\ \A k \in 1..Len(steps_listbox) :
         IF IsStickMove(steps_listbox[k])
         THEN DescribesStick(InterpLines[k], steps_listbox[k])
         ELSE InterpLines[k] = PlainLine(steps_listbox[k])

\* what the code does keep: the shape, the lines of the steps that are no
\* stick steps, and a description for the stick steps written `Stick:`;
\* a stick step written `%` or `&` is shown as its token
C27_StickTokensShownRaw ==
    /\ PreviewShape
    /\ \A k \in 1..Len(steps_listbox) :
         IF IsStickMove(steps_listbox[k])
         THEN IF IsLegacyStick(steps_listbox[k])
              THEN DescribesStick(InterpLines[k], steps_listbox[k])
              ELSE InterpLines[k] = steps_listbox[k]
         ELSE InterpLines[k] = PlainLine(steps_listbox[k])

(***************************************************************************)
(* C28: every coalesced press is closed.                                   *)
(***************************************************************************)
\* the loop took the tap at index k and the step after it as a pair: it is
\* the prefix of the next step that decides (line 750), not its number
PairedAt(k) ==
    /\ k + 1 < Len(steps)
    /\ Visited(k)
    /\ IsTap(steps[k + 1])
    /\ IsWaitPrefixed(steps[k + 2])

\* the playback is over and none of its sends raised
EndedWithoutSendFailure ==
    /\ last_op = "test_macro"
    /\ pc = "idle"
    /\ steps # <<>>
    /\ caught.type # "OSError"

\* C28: in every playback that ended with no send failing, for every step
\* list, the `press b` sent for the first half of a tap+wait pair has
\* `release b` as the very next command: b is never left held.
C28_CoalescedPressClosed ==
    EndedWithoutSendFailure =>
        \A k \in 0..(Len(steps) - 1) :
            PairedAt(k) =>
                SentIn(Block(k)) = << "press " \o TapButton(steps[k + 1]),
                                      "release " \o TapButton(steps[k + 1]) >>

\* what the code does keep: the press is closed whenever the number of the
\* wait step can be read and slept
C28_ClosedWhenWaitReadable ==
    EndedWithoutSendFailure =>
        \A k \in 0..(Len(steps) - 1) :
            PairedAt(k) /\ IsWait(steps[k + 2]) =>
                SentIn(Block(k)) = << "press " \o TapButton(steps[k + 1]),
                                      "release " \o TapButton(steps[k + 1]) >>

(***************************************************************************)
(* C29: playback terminates.                                               *)
(***************************************************************************)
\* how far a playback is from its end: three for every step from the
\* cursor on, and the place inside the iteration
Rank ==
    CASE pc = "idle"        -> 0
      [] pc = "loop"        -> 3 * (Len(steps) - i) + 1
      [] pc = "tap_wait"    -> 3 * (Len(steps) - i)
      [] pc = "settle"      -> 3 * (Len(steps) - i)
      [] pc = "tap_release" -> 3 * (Len(steps) - i) - 1

\* the cursor is inside the step list, and while the Wait of a pair is
\* being read it is a step of the list
CursorInside ==
    /\ i \in 0..Len(steps)
    /\ (pc \in {"tap_wait", "tap_release"} => i + 1 < Len(steps))

\* C29: playback terminates.  Every step of a running playback brings it
\* closer to its end; the cursor stays in 0..len(steps); a new iteration
\* starts with the cursor moved on by one, or by two after a tap taken
\* together with its Wait, and inside an iteration it does not move; the
\* lookahead reads a step of the list only, so a tap in the last position
\* is never taken as a pair.  A playback of n steps is therefore over after
\* at most 3n + 1 steps of the loop.
C29_Terminates ==
    [][ pc # "idle" =>
        /\ Rank' < Rank
        /\ Rank' >= 0
        /\ CursorInside /\ CursorInside'
        /\ steps' = steps
        /\ (pc' = "loop" =>
              i' = IF pc = "tap_release" THEN i + 2 ELSE i + 1)
        /\ (pc' # "loop" => i' = i)
        /\ (pc' = "tap_wait" => IsWaitPrefixed(steps[i + 2])) ]_vars

\* a finished playback that moved on by two (the tap with its Wait) and by
\* one (the tap in the last position, clicked)
C29_Witness ==
    /\ pc = "idle" /\ test_status = "Macro sent!"
    /\ Len(steps) = 3 /\ i = 3
    /\ Absorbed(1)
    /\ IsTap(steps[3])
    /\ SentIn(Block(2)) = << "click " \o TapButton(steps[3]) >>

(***************************************************************************)
(* C30: flag and socket agree.                                             *)
(***************************************************************************)
\* C30: in every reachable state the connected flag is true exactly when a
\* socket is held: both are set together by a successful connect and both
\* are cleared together by a failed connect and by disconnect.
C30_FlagSocketAgree == switch_connected <=> switch_socket # None

\* a connect attempt made on a connected client has failed: the socket of
\* the earlier connection was dropped, and the flag with it
C30_Witness ==
    /\ last_op = "connect:failed"
    /\ unclosed # {}
    /\ ~switch_connected
    /\ switch_socket = None

(***************************************************************************)
(* C31: the connection controls track the connection state.                *)
(***************************************************************************)
\* C31: in every reachable state the Connect control is enabled exactly
\* when the client is disconnected, the Disconnect control is enabled
\* exactly when it is connected, and at most one socket opened by connect
\* is left unclosed.
C31_ControlsTrack ==
    /\ (connect_btn = "normal" <=> ~switch_connected)
    /\ (disconnect_btn = "normal" <=> switch_connected)
    /\ Cardinality(unclosed) <= 1

(***************************************************************************)
(* C32: the selection stays valid.                                         *)
(***************************************************************************)
\* self.selected_index is None or an index of self.macros
NoneOrValid == selected_index = NoIndex \/ SelectionValid

\* Up or Down was clicked with a macro selected: the selection designates
\* the same macro as before, d places further down when it could move
FollowsMove(op, d, movable) ==
    last_op' = op /\ selected_index # NoIndex =>
        /\ SelectionValid'
        /\ macros'[selected_index' + 1] = macros[selected_index + 1]
        /\ steps_ref'[selected_index' + 1] = steps_ref[selected_index + 1]
        /\ selected_index' = IF movable THEN selected_index + d ELSE selected_index
        /\ (movable => curselection' = selected_index')

\* Clone has added an entry: the selection designates it, the entry that
\* was not in the library before, a copy of the macro selected before
DesignatesClone ==
    last_op' = "clone" /\ Len(macros') > Len(macros) =>
        /\ selected_index # NoIndex
        /\ SelectionValid'
        /\ selected_index' = selected_index + 1
        /\ curselection' = selected_index'
        /\ Without(macros', selected_index') = macros
        /\ macros'[selected_index' + 1] =
              Put(macros[selected_index + 1], "name",
                  macros[selected_index + 1]["name"] \o " (Copy)")

\* C32: the selection stays valid.  After any sequence of new, select, save,
\* delete, move up, move down, clone and import operations (and of losses of
\* the list's selection to another widget), the selected index is None or an
\* index of the macro library; after a move up or down it designates the
\* moved macro, and after a clone it designates the new clone.
C32_SelectionValid ==
    /\ NoneOrValid
    /\ [][ /\ NoneOrValid'
           /\ FollowsMove("move_up", -1, selected_index > 0)
           /\ FollowsMove("move_down", 1, selected_index < Len(macros) - 1)
           /\ DesignatesClone ]_vars

\* a macro was cloned and its clone, selected by Clone, was then moved up:
\* the selection is on the clone, now the first of the two
C32_Witness ==
    /\ last_op = "move_up"
    /\ Len(macros) = 2
    /\ selected_index = 0
    /\ curselection = 0
    /\ Get(macros[1], "name", "") = "M (Copy)"
    /\ Get(macros[2], "name", "") = "M"

(***************************************************************************)
(* C33: save touches one entry.                                            *)
(***************************************************************************)
\* the macro _save_macro builds from the form
FormMacro ==
    [name |-> Strip(name_var), trigger |-> Strip(trigger_var),
     chat_command |-> Strip(trigger_var), steps |-> steps_listbox]

\* the entries of the library other than the one at Python index idx are
\* the same objects as before, at the same places
OthersKept(idx) ==
    \A k \in 1..Len(macros) :
        k # idx + 1 => /\ macros'[k] = macros[k]
                       /\ steps_ref'[k] = steps_ref[k]

\* C33: save touches one entry.  A save that succeeds with a valid selection
\* replaces exactly the selected entry of the library: the length of the
\* library and every other entry are unchanged, and so is the selection.  A
\* save that succeeds with no selection appends exactly one entry at the
\* end and selects it, and every entry there was is unchanged.
C33_SaveTouchesOne ==
    [][ last_op' = "save" =>
          IF selected_index # NoIndex
          THEN /\ selected_index \in 0..(Len(macros) - 1)
               /\ Len(macros') = Len(macros)
               /\ macros'[selected_index + 1] = FormMacro
               /\ OthersKept(selected_index)
               /\ selected_index' = selected_index
          ELSE /\ Len(macros') = Len(macros) + 1
               /\ macros'[Len(macros')] = FormMacro
               /\ OthersKept(Len(macros))
               /\ selected_index' = Len(macros') - 1
               /\ curselection' = selected_index' ]_vars

\* a save with nothing selected has added a second macro after the first,
\* which is as it was, and the new one is selected
C33_Witness ==
    /\ last_op = "save"
    /\ Len(macros) = 2
    /\ selected_index = 1
    /\ curselection = 1
    /\ macros[1] = [name |-> "M", trigger |-> "!m", chat_command |-> "!m",
                    steps |-> <<"Button:A">>]
    /\ macros[2] = [name |-> "M", trigger |-> "!m", chat_command |-> "!m",
                    steps |-> <<"Wait:5", "Button:A">>]
    /\ steps_ref = <<1, 2>>

=============================================================================
